---------------------------- MODULE Spec2Model ----------------------------
(***************************************************************************)
(* Model of the Japanese pitch-accent / furigana add-on (src/reading.py),  *)
(* of its audio source manager (src/helpers/audio_manager.py) and of its   *)
(* audio search dialog (src/widgets/audio_search.py).                      *)
(*                                                                         *)
(* Text is a sequence of one-character strings over a small alphabet:      *)
(*   "k"  a kanji               "a"  a hiragana      "A"  its katakana     *)
(*   "-"  the long vowel mark   "/"  separator punctuation                 *)
(*   "<"  a piece of markup     "[" "]"  furigana brackets                 *)
(*   "1"  a digit               ","  the furigana reading separator        *)
(* None and the empty string are both the empty sequence << >>.            *)
(***************************************************************************)
EXTENDS Integers, Sequences, FiniteSets, TLC

VARIABLES
    cfg,        \* config_view: the user's settings read by reading.py
    acc_dict,   \* the accent database, headword -> list of FormattedEntry
    lexicon,    \* what the external mecab binary answers for a kanji
    cache,      \* lru_cache of get_pronunciations, least recent first
    pc,         \* "idle" before the operation of this behaviour, then "done"
    note,       \* the fields of the note being edited, name -> text
    call,       \* the operation applied and its arguments
    result,     \* what it returned, with the trace of what it did
    user_files, \* the files of user_files_dir(), file name -> content
    origins,    \* what the url of an audio source leads to, url -> origin
    audio_sources,  \* AudioSourceManager._audio_sources
    table       \* the audio search dialog: its results table and search line

audio_vars == <<user_files, origins, audio_sources, table>>
vars == <<cfg, acc_dict, lexicon, cache, pc, note, call, result, user_files, origins, audio_sources, table>>

\* the audio manager and the search dialog before anything was done with them
NoAudio ==
    /\ user_files = << >>
    /\ origins = << >>
    /\ audio_sources = << >>
    /\ table = [rows |-> << >>, last_results |-> << >>, search_line |-> << >>]

----------------------------------------------------------------------------
(* Bounds of the model *)

MaxLen == 2          \* longest word part of an input expression
MaxDepth == 5        \* nesting at which a runaway recursion is cut off
CacheSize == 3       \* cfg.cache_lookups, the maxsize of the lru_cache

----------------------------------------------------------------------------
(* Text helpers *)

Hiragana == {"a"}
Katakana == {"A"}
LONG_VOWEL_MARK == "-"
Digits == {"1"}
Separators == {"/"}
Markup == {"<"}

RECURSIVE SeqsUpTo(_, _)
SeqsUpTo(S, n) ==
    IF n = 0 THEN {<< >>}
    ELSE LET shorter == SeqsUpTo(S, n - 1)
         IN shorter \cup {Append(s, c) : s \in shorter, c \in S}

\* F applied to the value of v, v being computed once
Bind(v, F(_)) == CHOOSE y \in {F(x) : x \in {v}} : TRUE

Range(s) == {s[i] : i \in DOMAIN s}

Contains(s, sub) ==
    \E i \in 0..(Len(s) - Len(sub)) :
        \A j \in 1..Len(sub) : s[i + j] = sub[j]

kana_to_katakana(c) == IF c = "a" THEN "A" ELSE c
kana_to_hiragana(c) == IF c = "A" THEN "a" ELSE c

to_katakana(s) == [i \in DOMAIN s |-> kana_to_katakana(s[i])]
to_hiragana(s) == [i \in DOMAIN s |-> kana_to_hiragana(s[i])]

is_kana_word(s) ==
    \A i \in DOMAIN s : s[i] \in Hiragana \cup Katakana \cup {LONG_VOWEL_MARK}

\* anki.utils.htmlToTextLine: drops the markup, keeps the text
htmlToTextLine(s) == SelectSeq(s, LAMBDA c : c \notin Markup)

\* str.isnumeric
isnumeric(s) == s # << >> /\ \A i \in DOMAIN s : s[i] \in Digits

IndexOf(s, c) ==
    IF c \in Range(s) THEN CHOOSE i \in DOMAIN s :
                               s[i] = c /\ \A j \in 1..(i - 1) : s[j] # c
    ELSE 0

\* helpers.mingle_readings.word_reading: "head[reading]tail" gives the word
\* head.tail and the reading reading.tail; text without furigana is the word.
word_reading(text) ==
    LET open == IndexOf(text, "[")
        close == IndexOf(text, "]")
    IN IF open > 1 /\ close > open + 1
       THEN LET head == SubSeq(text, 1, open - 1)
                inner == SubSeq(text, open + 1, close - 1)
                tail == SubSeq(text, close + 1, Len(text))
            IN [word |-> head \o tail, reading |-> inner \o tail]
       ELSE [word |-> text, reading |-> << >>]

\* helpers.tokens.split_separators: str.split on the separator punctuation,
\* empty sections included.
RECURSIVE split_separators(_)
split_separators(expr) ==
    LET cut == CHOOSE i \in 1..(Len(expr) + 1) :
                   /\ i = Len(expr) + 1 \/ expr[i] \in Separators
                   /\ \A j \in 1..(i - 1) : expr[j] \notin Separators
    IN IF cut > Len(expr) THEN <<expr>>
       ELSE <<SubSeq(expr, 1, cut - 1)>>
                \o split_separators(SubSeq(expr, cut + 1, Len(expr)))

----------------------------------------------------------------------------
(* Mecab controller *)

ParsedToken(word, katakana_reading, headword) ==
    [word |-> word, katakana_reading |-> katakana_reading, headword |-> headword]

hiragana_reading(out) == to_hiragana(out.katakana_reading)

\* MecabController.escape_text: the text mecab is given
escape_text(text) == htmlToTextLine(text)

\* The mecab binary (self.run): one section per character. A kana is its own
\* headword with its katakana as reading, a kanji is analysed as the lexicon
\* says, anything else is unknown to mecab (--unk-format: the surface alone).
mecab_section(c) ==
    IF c \in Hiragana \cup Katakana THEN <<<<c>>, <<kana_to_katakana(c)>>, <<c>>>>
    ELSE IF c = "k" /\ lexicon.known
         THEN <<<<c>>, lexicon.reading, lexicon.headword>>
         ELSE <<<<c>>>>

mecab_run(expr) == [i \in DOMAIN expr |-> mecab_section(expr[i])]

\* MecabController.translate, one section
translate_section(section) ==
    LET fields == IF Len(section) = 3 THEN section
                  ELSE <<section[1], section[1], section[1]>>
        word == fields[1]
        reading == fields[2]
        headword == fields[3]
    IN IF is_kana_word(word) \/ to_katakana(word) = to_katakana(reading)
       THEN ParsedToken(word, << >>, headword)
       ELSE ParsedToken(word, reading, headword)

translate(expr) ==
    LET sections == mecab_run(escape_text(expr))
    IN [i \in DOMAIN sections |-> translate_section(sections[i])]

mecab_translate(expr) == translate(expr)

----------------------------------------------------------------------------
(* AccentDict: an OrderedDict, as the sequence of its items *)

dict_has(d, key) == \E i \in DOMAIN d : d[i].k = key

dict_get(d, key) ==
    IF dict_has(d, key) THEN d[CHOOSE i \in DOMAIN d : d[i].k = key].v
    ELSE << >>

dict_set(d, key, val) ==
    IF dict_has(d, key)
    THEN [i \in DOMAIN d |-> IF d[i].k = key THEN [k |-> key, v |-> val] ELSE d[i]]
    ELSE Append(d, [k |-> key, v |-> val])

dict_update_mut_replace(d, other) == other
RECURSIVE dict_update(_, _)
dict_update(d, other) ==
    IF other = << >> THEN d
    ELSE dict_update(dict_set(d, Head(other).k, Head(other).v), Tail(other))

dict_keys(d) == {d[i].k : i \in DOMAIN d}

----------------------------------------------------------------------------
(* functools.lru_cache around get_pronunciations *)

cache_key(expr, sanitize, recurse) == <<expr, sanitize, recurse>>

cache_has_mut_never(c, key) == FALSE
cache_has(c, key) == \E i \in DOMAIN c : c[i].key = key

cache_index(c, key) == CHOOSE i \in DOMAIN c : c[i].key = key

cache_drop(c, i) == SubSeq(c, 1, i - 1) \o SubSeq(c, i + 1, Len(c))

\* a hit moves the entry to the most recent end
cache_touch(c, key) ==
    LET i == cache_index(c, key) IN Append(cache_drop(c, i), c[i])

\* a miss stores the result, evicting the least recent entry when full
cache_store(c, key, val) ==
    LET kept == IF cache_has(c, key) THEN cache_drop(c, cache_index(c, key))
                ELSE c
        room == IF Len(kept) >= CacheSize THEN Tail(kept) ELSE kept
    IN Append(room, [key |-> key, val |-> val])


----------------------------------------------------------------------------
(* Lookup: get_pronunciations *)

FormattedEntry(katakana_reading, pitch_number, html_notation) ==
    [katakana_reading |-> katakana_reading,
     pitch_number |-> pitch_number,
     html_notation |-> html_notation]

\* cfg.pitch_accent.is_blocklisted
is_blocklisted(expr) == expr \in cfg.pa_blocklist

\* line 124: skip empty strings and user-specified blocklisted words
should_skip_mut_never(expr) == FALSE
should_skip(expr) == expr = << >> \/ is_blocklisted(expr)

\* line 130: a numeric reading, or several readings, are ignored
discard_reading_mut_keep(expr_reading) == FALSE
discard_reading(expr_reading) ==
    /\ expr_reading # << >>
    /\ \/ isnumeric(expr_reading)
       \/ Contains(expr_reading, cfg.reading_separator)

\* line 137: there is furigana and the entry does not match it
reading_mismatch_mut_never(entry, expr_reading) == FALSE
reading_mismatch(entry, expr_reading) ==
    /\ expr_reading # << >>
    /\ to_katakana(entry.katakana_reading) # to_katakana(expr_reading)

\* line 139: the entry is already in the list
already_collected_mut_never(entry, acc) == FALSE
already_collected(entry, acc) == entry \in Range(acc)

\* lines 134-140: the entries of an exact match, filtered and deduplicated
RECURSIVE collect_entries(_, _, _)
collect_entries(entries, expr_reading, acc) ==
    IF entries = << >> THEN acc
    ELSE LET entry == Head(entries)
         IN IF reading_mismatch(entry, expr_reading)
            THEN collect_entries(Tail(entries), expr_reading, acc)
            ELSE IF already_collected(entry, acc)
                 THEN collect_entries(Tail(entries), expr_reading, acc)
                 ELSE collect_entries(Tail(entries), expr_reading, Append(acc, entry))

\* the recurse argument of the calls at lines 142, 147 (the default), 154, 164
kana_recurse_mut_true == TRUE
kana_recurse == FALSE
section_recurse == TRUE
headword_recurse_mut_true == TRUE
headword_recurse == FALSE
reading_recurse == FALSE

\* line 141: the katakana form is a key and katakana lookups are enabled
kana_fallback_applies_mut_unconditional(expr_katakana) == expr_katakana \in DOMAIN acc_dict
kana_fallback_applies(expr_katakana) ==
    expr_katakana \in DOMAIN acc_dict /\ cfg.kana_lookups

\* line 150: the lookups of the sections were not successful and mecab is on
mecab_wanted_mut_always(ret) == cfg.use_mecab
mecab_wanted(ret) == ret = << >> /\ cfg.use_mecab

\* lines 159-163: nothing under the headword, a reading, katakana lookups on
last_resort_wanted_mut_any_reading(ret, out) ==
    out.katakana_reading # << >> /\ cfg.kana_lookups
last_resort_wanted(ret, out) ==
    /\ dict_get(ret, out.headword) = << >>
    /\ out.katakana_reading # << >>
    /\ cfg.kana_lookups

\* Trace of one resolution, in the order things happen
CallEvent(arg, sanitize, recurse, depth, via, in_morph, expr, reading, branch) ==
    [ev |-> "call", arg |-> arg, sanitize |-> sanitize, recurse |-> recurse,
     depth |-> depth, via |-> via, in_morph |-> in_morph,
     expr |-> expr, reading |-> reading, branch |-> branch]
HitEvent(arg, sanitize, recurse, depth, via, in_morph) ==
    [ev |-> "hit", arg |-> arg, sanitize |-> sanitize, recurse |-> recurse,
     depth |-> depth, via |-> via, in_morph |-> in_morph]
DictEvent(key, depth) == [ev |-> "dict", key |-> key, depth |-> depth]
MecabEvent(expr, depth, in_morph) ==
    [ev |-> "mecab", expr |-> expr, depth |-> depth, in_morph |-> in_morph]
RetEvent(depth, ret) == [ev |-> "ret", depth |-> depth, ret |-> ret]
OverflowEvent(depth) == [ev |-> "overflow", depth |-> depth]

Logged(s, events) == [s EXCEPT !.log = @ \o events]

RECURSIVE get_pronunciations(_, _, _, _, _, _, _)
RECURSIVE get_pronunciations_body(_, _, _, _, _, _, _)
RECURSIVE split_loop(_, _, _, _, _, _)
RECURSIVE mecab_loop(_, _, _, _, _)

\* lines 146-147: for section in split_expr: ret.update(get_pronunciations(section, sanitize))
split_loop(split_expr, i, ret, depth, in_morph, s) ==
    IF i > Len(split_expr) THEN [ret |-> ret, s |-> s]
    ELSE LET r == get_pronunciations(split_expr[i], FALSE, section_recurse,
                                     depth + 1, "section", in_morph, s)
         IN split_loop(split_expr, i + 1, dict_update(ret, r.ret), depth, in_morph, r.s)

\* lines 151-164: for out in mecab_translate(expr)
mecab_loop(tokens, i, ret, depth, s) ==
    IF i > Len(tokens) THEN [ret |-> ret, s |-> s]
    ELSE LET out == tokens[i]
             r1 == get_pronunciations(out.headword, FALSE, headword_recurse,
                                      depth + 1, "headword", TRUE, s)
             ret1 == dict_update(ret, r1.ret)
         IN IF last_resort_wanted(ret1, out)
            THEN LET r2 == get_pronunciations(out.katakana_reading, FALSE, reading_recurse,
                                              depth + 1, "reading", TRUE, r1.s)
                 IN mecab_loop(tokens, i + 1, dict_update(ret1, r2.ret), depth, r2.s)
            ELSE mecab_loop(tokens, i + 1, ret1, depth, r1.s)

\* lines 113-166: the body of get_pronunciations, run on a cache miss
get_pronunciations_body(expr0, sanitize, recurse, depth, via, in_morph, s) ==
    LET text == IF sanitize THEN htmlToTextLine(expr0) ELSE expr0
        wr == word_reading(text)
        expr == wr.word
        expr_reading == IF discard_reading(wr.reading) THEN << >> ELSE wr.reading
        expr_katakana == to_katakana(expr)
        Entered(branch) == CallEvent(expr0, sanitize, recurse, depth, via, in_morph,
                                     expr, expr_reading, branch)
    IN IF should_skip(expr)
       THEN [ret |-> << >>, s |-> Logged(s, <<Entered("skip")>>)]
       ELSE IF expr \in DOMAIN acc_dict
       THEN [ret |-> <<[k |-> expr,
                        v |-> collect_entries(acc_dict[expr], expr_reading, << >>)]>>,
             s |-> Logged(s, <<Entered("exact"), DictEvent(expr, depth)>>)]
       ELSE IF kana_fallback_applies(expr_katakana)
       THEN LET r == get_pronunciations(
                         expr_katakana, FALSE, kana_recurse, depth + 1, "kana", in_morph,
                         Logged(s, <<Entered("kana"), DictEvent(expr, depth),
                                     DictEvent(expr_katakana, depth)>>))
            IN [ret |-> dict_update(<< >>, r.ret), s |-> r.s]
       ELSE IF recurse
       THEN LET s0 == Logged(s, <<Entered("decompose"), DictEvent(expr, depth),
                                  DictEvent(expr_katakana, depth)>>)
                split_expr == split_separators(expr)
                r1 == IF Len(split_expr) > 1
                      THEN split_loop(split_expr, 1, << >>, depth, in_morph, s0)
                      ELSE [ret |-> << >>, s |-> s0]
            IN IF mecab_wanted(r1.ret)
               THEN mecab_loop(mecab_translate(expr), 1, r1.ret, depth,
                               Logged(r1.s, <<MecabEvent(expr, depth, in_morph)>>))
               ELSE r1
       ELSE [ret |-> << >>,
             s |-> Logged(s, <<Entered("none"), DictEvent(expr, depth),
                               DictEvent(expr_katakana, depth)>>)]

\* lines 104-105: the memoized function. s is the cache and the trace so far.
get_pronunciations(expr, sanitize, recurse, depth, via, in_morph, s) ==
    LET key == cache_key(expr, sanitize, recurse)
    IN IF depth > MaxDepth
       THEN [ret |-> << >>, s |-> Logged(s, <<OverflowEvent(depth)>>)]
       ELSE IF cache_has(s.cache, key)
       THEN LET val == s.cache[cache_index(s.cache, key)].val
            IN [ret |-> val,
                s |-> [cache |-> cache_touch(s.cache, key),
                       log |-> s.log \o <<HitEvent(expr, sanitize, recurse, depth,
                                                   via, in_morph),
                                          RetEvent(depth, val)>>]]
       ELSE LET r == get_pronunciations_body(expr, sanitize, recurse, depth,
                                             via, in_morph, s)
            IN [ret |-> r.ret,
                s |-> [cache |-> cache_store(r.s.cache, key, r.ret),
                       log |-> Append(r.s.log, RetEvent(depth, r.ret))]]

\* lines 169-172: iter_accents
iter_accents_call(word, s) == get_pronunciations(word, TRUE, FALSE, 0, "top", FALSE, s)
iter_accents_of(word, accents) == dict_get(accents, word)

----------------------------------------------------------------------------
(* The accent database and the analyser the lookups run against *)

E1 == FormattedEntry(<<"A">>, <<"0">>, <<"c", "A">>)
E2 == FormattedEntry(<<"A", "A">>, <<"1">>, <<"c", "A", "A">>)
E3 == FormattedEntry(<<"A", "A">>, <<"2">>, <<"s", "A", "A">>)

\* Every entry the database may hold: a homograph with two readings and a
\* repeated row, a katakana key, and a headword in dictionary form.
FullDict ==
    (<<"k">> :> <<E1, E2, E1>>) @@ (<<"A">> :> <<E1>>) @@ (<<"k", "a">> :> <<E3>>)

DictChoices ==
    {[key \in keys |-> FullDict[key]] : keys \in SUBSET (DOMAIN FullDict)}

LexiconChoices ==
    { [known |-> FALSE, reading |-> << >>, headword |-> << >>],
      [known |-> TRUE, reading |-> <<"A">>, headword |-> <<"k">>],
      [known |-> TRUE, reading |-> <<"A">>, headword |-> <<"k", "a">>],
      [known |-> TRUE, reading |-> <<"A">>, headword |-> <<"a">>] }

BlocklistChoices == {{}, {<<"k">>}, {<<"A">>}}

WordChars == {"k", "a", "A", "/"}
Words == SeqsUpTo(WordChars, MaxLen)

\* explicit readings: matching E1, matching E2 and E3, numeric, two readings
Readings == {<<"a">>, <<"A", "A">>, <<"1">>, <<"a", ",", "a">>}

\* expressions of two words
SplitInputs == {<<"k", "/", "a">>, <<"a", "/", "k">>, <<"k", "a", "/", "k">>}

\* the words given with a reading or behind markup
ShortWords == {w \in Words : Len(w) < MaxLen}

Inputs ==
    Words
    \cup SplitInputs
    \cup {w \o <<"[">> \o r \o <<"]">> : w \in ShortWords \ {<< >>}, r \in Readings}
    \cup {<<"<">> \o w : w \in ShortWords}

\* config_view with the settings reading.py reads, at the values the
\* behaviours below do not vary
DefaultConfig ==
    [kana_lookups |-> TRUE, use_mecab |-> TRUE, pa_blocklist |-> {},
     pa_reading_separator |-> <<".">>, word_separator |-> <<";">>,
     pa_maximum_results |-> 0,
     styles |-> <<[k |-> "c", v |-> "s"]>>, output_hiragana |-> FALSE,
     reading_separator |-> <<",">>, furigana_blocklist |-> {},
     database_lookups |-> TRUE, prefer_long_vowel_mark |-> FALSE,
     mecab_only |-> {}, furigana_maximum_results |-> 0,
     wrap_readings |-> << >>, counters |-> {}, regenerate_readings |-> FALSE,
     tasks |-> << >>, audio_sources |-> << >>]

LookupConfigs ==
    {[DefaultConfig EXCEPT !.kana_lookups = kana, !.use_mecab = mecab,
                           !.pa_blocklist = blocklist] :
        kana \in BOOLEAN, mecab \in BOOLEAN, blocklist \in BlocklistChoices}

NoNote == << >>
NoCall == [op |-> "none"]
NoResult == [ret |-> << >>, log |-> << >>]

InitLookup ==
    /\ NoAudio
    /\ cfg \in LookupConfigs
    /\ acc_dict \in DictChoices
    /\ lexicon \in LexiconChoices
    /\ cache = << >>
    /\ pc = "idle"
    /\ note = NoNote
    /\ call = NoCall
    /\ result = NoResult

\* do_task, line 285: get_pronunciations(src_text)
Lookup(expr) ==
    /\ pc = "idle"
    /\ LET r == get_pronunciations(expr, TRUE, TRUE, 0, "top", FALSE,
                                   [cache |-> cache, log |-> << >>])
       IN /\ result' = [ret |-> r.ret, log |-> r.s.log]
          /\ cache' = r.s.cache
    /\ call' = [op |-> "get_pronunciations", expr |-> expr]
    /\ pc' = "done"
    /\ UNCHANGED <<cfg, acc_dict, lexicon, note>>
    /\ UNCHANGED audio_vars

\* iter_furigana, line 214: iter_accents(out.headword)
IterAccents(word) ==
    /\ pc = "idle"
    /\ LET r == iter_accents_call(word, [cache |-> cache, log |-> << >>])
       IN /\ result' = [ret |-> iter_accents_of(word, r.ret), log |-> r.s.log]
          /\ cache' = r.s.cache
    /\ call' = [op |-> "iter_accents", expr |-> word]
    /\ pc' = "done"
    /\ UNCHANGED <<cfg, acc_dict, lexicon, note>>
    /\ UNCHANGED audio_vars

NextLookup ==
    /\ pc = "idle"
    /\ \/ \E expr \in Inputs : Lookup(expr)
       \/ \E word \in Words : IterAccents(word)

SpecLookup == InitLookup /\ [][NextLookup]_vars

----------------------------------------------------------------------------
(* Properties of the lookup *)

Resolved == pc = "done" /\ call.op \in {"get_pronunciations", "iter_accents"}
Events == {result.log[i] : i \in DOMAIN result.log}
CallEvents == {e \in Events : e.ev = "call"}
RetEvents == {e \in Events : e.ev = "ret"}
TopCall == result.log[1]
EntriesOf(d) == UNION {Range(d[i].v) : i \in DOMAIN d}

\* C1: every resolution returns, and no resolve call is nested more than
\* three calls below the outermost one (one split level, then the
\* morphological fallback, then the katakana fallback of its sub-lookup).
C1_BoundedRecursion ==
    Resolved =>
        /\ \A e \in Events : e.ev # "overflow" /\ e.depth <= 3
        /\ result.log[Len(result.log)].ev = "ret"
        /\ result.log[Len(result.log)].depth = 0

C1_Witness ==
    /\ Resolved
    /\ \E e \in CallEvents : e.depth = 3 /\ e.via = "kana" /\ e.in_morph
    /\ \E e \in CallEvents : e.depth = 1 /\ e.via = "section"

\* C2: a resolve call made from the morphological fallback, or from a call
\* below it, never runs mecab and never enters the decomposition branch.
C2_NoMorphInsideMorph ==
    Resolved =>
        /\ \A e \in Events : e.ev = "mecab" => ~e.in_morph
        /\ \A e \in CallEvents : e.in_morph => e.branch # "decompose"

C2_Witness ==
    /\ Resolved
    /\ \E e \in Events : e.ev = "mecab"
    /\ \E e \in CallEvents : e.in_morph /\ e.branch = "none" /\ e.via = "headword"

HasExplicitReading ==
    /\ pc = "done" /\ call.op = "get_pronunciations"
    /\ TopCall.ev = "call" /\ TopCall.reading # << >>

AgreesWithReading(entry) ==
    to_katakana(entry.katakana_reading) = to_katakana(TopCall.reading)

\* C3 as claimed: with an explicit reading, every returned entry has that
\* reading, whatever the path it was found on.
C3_Original ==
    HasExplicitReading => \A entry \in EntriesOf(result.ret) : AgreesWithReading(entry)

\* C3: with an explicit reading and the expression itself a key of the
\* dictionary (the exact match), every returned entry has that reading.
C3_ExactMatchFiltered ==
    (HasExplicitReading /\ TopCall.branch = "exact") =>
        /\ dict_keys(result.ret) = {TopCall.expr}
        /\ \A entry \in EntriesOf(result.ret) : AgreesWithReading(entry)

C3_Witness ==
    /\ HasExplicitReading /\ TopCall.branch = "exact"
    /\ EntriesOf(result.ret) # {}
    /\ \E entry \in Range(acc_dict[TopCall.expr]) : ~AgreesWithReading(entry)

FollowedByEmptyReturn(i) ==
    /\ i < Len(result.log)
    /\ result.log[i + 1] = RetEvent(result.log[i].depth, << >>)

\* C9: a call whose expression, the reading split off, is empty or
\* blocklisted returns the empty mapping at once (nothing happens between its
\* entry and its return), and no mapping returned has a blocklisted key.
C9_SkipIsImmediate ==
    Resolved =>
        /\ \A i \in DOMAIN result.log :
               LET e == result.log[i]
               IN (e.ev = "call" /\ (e.expr = << >> \/ e.expr \in cfg.pa_blocklist))
                      => e.branch = "skip" /\ FollowedByEmptyReturn(i)
        /\ \A e \in RetEvents : dict_keys(e.ret) \cap (cfg.pa_blocklist \cup {<< >>}) = {}

C9_Witness ==
    /\ Resolved
    /\ \E e \in CallEvents : e.depth > 0 /\ e.expr \in cfg.pa_blocklist
    /\ \E e \in CallEvents : e.expr = << >>
    /\ result.ret # << >>

\* the input carries a reading that is numeric or holds the reading separator
HasDiscardedReading ==
    /\ pc = "done" /\ call.op = "get_pronunciations"
    /\ LET rd == word_reading(htmlToTextLine(call.expr)).reading
       IN isnumeric(rd) \/ (rd # << >> /\ Contains(rd, cfg.reading_separator))

PlainExpression == word_reading(htmlToTextLine(call.expr)).word

ResolveFresh(expr) ==
    get_pronunciations(expr, TRUE, TRUE, 0, "top", FALSE,
                       [cache |-> << >>, log |-> << >>]).ret

\* C10: an expression whose reading is numeric or holds the reading
\* separator resolves to what the expression without the reading resolves to.
C10_DiscardedReadingIsAbsent ==
    HasDiscardedReading => result.ret = ResolveFresh(PlainExpression)

C10_Witness ==
    /\ HasDiscardedReading
    /\ TopCall.branch = "exact"
    /\ \E entry \in EntriesOf(result.ret) :
           to_katakana(entry.katakana_reading)
               # to_katakana(word_reading(call.expr).reading)

NoDuplicates(entries) ==
    \A i, j \in DOMAIN entries : i # j => entries[i] # entries[j]

\* C14: no mapping returned by a resolve call, nested or outermost, computed
\* or taken from the cache, has the empty string as a key or an entry list
\* holding two equal entries.
C14_NoEmptyKeyNoDuplicates ==
    Resolved =>
        \A e \in RetEvents :
            \A i \in DOMAIN e.ret :
                /\ e.ret[i].k # << >>
                /\ NoDuplicates(e.ret[i].v)
                /\ \A j \in DOMAIN e.ret : i # j => e.ret[i].k # e.ret[j].k

\* a merged mapping, one of its lists coming from a row the dictionary repeats
C14_Witness ==
    /\ pc = "done" /\ call.op = "get_pronunciations"
    /\ Len(result.ret) = 2
    /\ \E i \in DOMAIN result.ret :
           /\ ~NoDuplicates(acc_dict[result.ret[i].k])
           /\ Len(result.ret[i].v) = 2
    /\ \E e \in CallEvents : e.depth > 0

\* the positions in the trace where a resolve call is made by another one
NestedCalls ==
    {p \in DOMAIN result.log :
        result.log[p].ev \in {"call", "hit"} /\ result.log[p].depth > 0}

\* the call that made the call at position p: the last one entered before it
\* one level up
RECURSIVE EnclosingCall(_, _)
EnclosingCall(p, depth) ==
    IF p = 1 THEN 0
    ELSE IF result.log[p - 1].ev = "call" /\ result.log[p - 1].depth = depth
         THEN p - 1
         ELSE EnclosingCall(p - 1, depth)

CallerOf(p) == result.log[EnclosingCall(p, result.log[p].depth - 1)]

\* the calls made by the call entered at position q
CallsMadeBy(q) ==
    {p \in (q + 1)..Len(result.log) :
        /\ result.log[p].ev \in {"call", "hit"}
        /\ result.log[p].depth = result.log[q].depth + 1
        /\ EnclosingCall(p, result.log[q].depth) = q}

NarrowsOrStops(p) ==
    \/ /\ result.log[p].via = "section"
       /\ Len(result.log[p].arg) < Len(CallerOf(p).expr)
    \/ ~result.log[p].recurse

\* C15 as claimed: a call with recurse=False makes no call, and every nested
\* call is on a shorter split section or passes recurse=False.
C15_Original ==
    Resolved =>
        \A p \in NestedCalls : CallerOf(p).recurse /\ NarrowsOrStops(p)

\* C15: every nested call is on a split section shorter than its caller's
\* expression or passes recurse=False; a call with recurse=False makes no
\* call but the one of the katakana fallback, on the katakana form that is
\* a key of the dictionary, and that call makes none.
C15_RecursionNarrowsOrStops ==
    Resolved =>
        /\ \A p \in NestedCalls :
               /\ NarrowsOrStops(p)
               /\ ~CallerOf(p).recurse =>
                      /\ result.log[p].via = "kana"
                      /\ result.log[p].arg = to_katakana(CallerOf(p).expr)
                      /\ result.log[p].arg \in DOMAIN acc_dict
                      /\ result.log[p].ev = "call" => CallsMadeBy(p) = {}
        /\ \A q \in DOMAIN result.log :
               (result.log[q].ev = "call" /\ ~result.log[q].recurse) =>
                   Cardinality(CallsMadeBy(q)) <= 1

C15_Witness ==
    /\ Resolved
    /\ \E p \in NestedCalls :
           /\ ~CallerOf(p).recurse /\ CallerOf(p).via = "headword"
           /\ result.log[p].ev = "call" /\ result.log[p].branch = "exact"
    /\ \E p \in NestedCalls :
           result.log[p].via = "section" /\ result.log[p].recurse

\* the positions where the body of a resolve call is entered and not skipped
BodiesRun ==
    {q \in DOMAIN result.log :
        result.log[q].ev = "call" /\ result.log[q].branch # "skip"}

\* the runs of mecab made by the call entered at position q
MecabRunsBy(q) ==
    {p \in (q + 1)..Len(result.log) :
        /\ result.log[p].ev = "mecab"
        /\ result.log[p].depth = result.log[q].depth
        /\ EnclosingCall(p, result.log[q].depth) = q}

\* what the call at position p returned
RECURSIVE ReturnAfter(_, _)
ReturnAfter(p, depth) ==
    IF result.log[p + 1].ev = "ret" /\ result.log[p + 1].depth = depth
    THEN result.log[p + 1].ret
    ELSE ReturnAfter(p + 1, depth)

ReturnOf(p) == ReturnAfter(p, result.log[p].depth)

IsKey(expr) == expr \in DOMAIN acc_dict
KanaFallbackDue(e) ==
    ~IsKey(e.expr) /\ cfg.kana_lookups /\ IsKey(to_katakana(e.expr))
DecompositionDue(e) == e.recurse /\ ~IsKey(e.expr) /\ ~KanaFallbackDue(e)

\* C16: in a call that is not skipped, an expression that is a key is
\* answered from the dictionary alone; the katakana fallback is made exactly
\* when the expression is no key, katakana lookups are enabled and the
\* katakana form is a key, as one call with recurse=False whose result is
\* returned; sections, headwords and readings are resolved and mecab is run
\* only when recurse is true and neither of the two applied.
C16_StepsExclusiveInOrder ==
    Resolved =>
        \A q \in BodiesRun :
            LET e == result.log[q]
                made == CallsMadeBy(q)
            IN /\ IsKey(e.expr) =>
                      /\ made = {} /\ MecabRunsBy(q) = {}
                      /\ dict_keys(ReturnOf(q)) = {e.expr}
               /\ KanaFallbackDue(e) =>
                      /\ Cardinality(made) = 1 /\ MecabRunsBy(q) = {}
                      /\ \A p \in made :
                             /\ result.log[p].via = "kana"
                             /\ result.log[p].arg = to_katakana(e.expr)
                             /\ ~result.log[p].recurse
                             /\ ReturnOf(q) = ReturnOf(p)
               /\ (\E p \in made : result.log[p].via = "kana") => KanaFallbackDue(e)
               /\ (\E p \in made : result.log[p].via # "kana") => DecompositionDue(e)
               /\ MecabRunsBy(q) # {} => DecompositionDue(e)
               /\ (~IsKey(e.expr) /\ ~KanaFallbackDue(e) /\ ~e.recurse) =>
                      made = {} /\ MecabRunsBy(q) = {} /\ ReturnOf(q) = << >>

\* a katakana fallback and a decomposition in one resolution
C16_Witness ==
    /\ Resolved
    /\ \E q \in BodiesRun :
           /\ KanaFallbackDue(result.log[q]) /\ CallsMadeBy(q) # {}
           /\ ReturnOf(q) # << >>
    /\ \E q \in BodiesRun :
           DecompositionDue(result.log[q]) /\ MecabRunsBy(q) # {}

\* the calls of one kind made by the call entered at q, in the order made
CallsVia(q, via) ==
    SelectSeq([p \in DOMAIN result.log |-> p],
              LAMBDA p : /\ p > q
                         /\ result.log[p].ev \in {"call", "hit"}
                         /\ result.log[p].depth = result.log[q].depth + 1
                         /\ result.log[p].via = via
                         /\ EnclosingCall(p, result.log[q].depth) = q)

\* the lookups of the sections of the call entered at q found something
SplitFound(q) ==
    \E p \in CallsMadeBy(q) : result.log[p].via = "section" /\ ReturnOf(p) # << >>

\* C17: in the decomposition step, when the sections gave nothing and mecab
\* is enabled, mecab is run once on the expression and the headword of each
\* of its tokens, in order, is resolved with recurse=False; when the sections
\* gave something or mecab is disabled, mecab is not run and no headword or
\* reading is resolved.
C17_MecabAfterFailedSplit ==
    Resolved =>
        \A q \in BodiesRun :
            DecompositionDue(result.log[q]) =>
                LET e == result.log[q]
                    tokens == mecab_translate(e.expr)
                    headwords == CallsVia(q, "headword")
                IN IF ~SplitFound(q) /\ cfg.use_mecab
                   THEN /\ Cardinality(MecabRunsBy(q)) = 1
                        /\ \A p \in MecabRunsBy(q) : result.log[p].expr = e.expr
                        /\ Len(headwords) = Len(tokens)
                        /\ \A i \in DOMAIN headwords :
                               /\ result.log[headwords[i]].arg = tokens[i].headword
                               /\ ~result.log[headwords[i]].recurse
                               /\ \A p \in MecabRunsBy(q) : p < headwords[i]
                   ELSE /\ MecabRunsBy(q) = {}
                        /\ headwords = << >>
                        /\ CallsVia(q, "reading") = << >>

\* sections that gave nothing, then mecab on the whole expression
C17_Witness ==
    /\ Resolved
    /\ \E q \in BodiesRun :
           /\ DecompositionDue(result.log[q])
           /\ Len(CallsVia(q, "section")) = 2 /\ ~SplitFound(q)
           /\ Len(CallsVia(q, "headword")) = 2
           /\ ReturnOf(q) # << >>

\* the calls on a reading made for token i of the mecab run of the call at q
ReadingCallsFor(q, i) ==
    LET headwords == CallsVia(q, "headword")
    IN {p \in CallsMadeBy(q) :
            /\ result.log[p].via = "reading"
            /\ p > headwords[i]
            /\ i < Len(headwords) => p < headwords[i + 1]}

\* the mapping built up to the lookup of headword i holds entries under it
HasEntriesUnderHeadword(q, i) ==
    LET headwords == CallsVia(q, "headword")
    IN \E p \in CallsMadeBy(q) :
           /\ p <= headwords[i]
           /\ dict_get(ReturnOf(p), result.log[headwords[i]].arg) # << >>

LastResortMade(q, i, reading) ==
    /\ Cardinality(ReadingCallsFor(q, i)) = 1
    /\ \A p \in ReadingCallsFor(q, i) :
           result.log[p].arg = reading /\ ~result.log[p].recurse

\* the calls whose mecab run is looked at
MecabCalls == {q \in BodiesRun : MecabRunsBy(q) # {}}

RECURSIVE ItemsOf(_)
ItemsOf(mappings) ==
    IF mappings = << >> THEN << >> ELSE Head(mappings) \o ItemsOf(Tail(mappings))

\* the mappings merged in order: a key stands where it first came, with the
\* entries it came with last
MergedInOrder(mappings) ==
    LET items == ItemsOf(mappings)
        first == SelectSeq([n \in DOMAIN items |-> n],
                           LAMBDA n : \A m \in 1..(n - 1) : items[m].k # items[n].k)
        last(key) == CHOOSE n \in DOMAIN items :
                         /\ items[n].k = key
                         /\ \A m \in (n + 1)..Len(items) : items[m].k # key
    IN [n \in DOMAIN first |->
            [k |-> items[first[n]].k, v |-> items[last(items[first[n]].k)].v]]

\* C19: when the expression splits into more than one section, every
\* section is resolved, in order, by a call of its own, and when any of them
\* found something the result is their mappings merged in order, the
\* sections that found nothing changing nothing.
C19_SectionsMerged ==
    Resolved =>
        \A q \in BodiesRun :
            LET e == result.log[q]
                split_expr == split_separators(e.expr)
                sections == CallsVia(q, "section")
            IN IF DecompositionDue(e) /\ Len(split_expr) > 1
               THEN /\ Len(sections) = Len(split_expr)
                    /\ \A i \in DOMAIN sections :
                           /\ result.log[sections[i]].arg = split_expr[i]
                           /\ result.log[sections[i]].recurse
                    /\ SplitFound(q) =>
                           ReturnOf(q) =
                               MergedInOrder([i \in DOMAIN sections |->
                                                  ReturnOf(sections[i])])
               ELSE sections = << >>

\* a first section that finds nothing, a second one that finds entries
C19_Witness ==
    /\ Resolved
    /\ \E q \in BodiesRun :
           LET sections == CallsVia(q, "section")
           IN /\ Len(sections) = 2
              /\ ReturnOf(sections[1]) = << >>
              /\ result.log[sections[1]].arg # << >>
              /\ ReturnOf(sections[2]) # << >>
              /\ ReturnOf(q) = ReturnOf(sections[2])

----------------------------------------------------------------------------
(* Repeated lookups against the one cache of the process *)

MaxCalls == 3        \* resolve calls made one after another

CacheExprs == {<<"k">>, <<"a">>, <<"k", "/", "a">>, <<"<", "k">>, <<"a", "k">>}

CacheConfigs ==
    {[DefaultConfig EXCEPT !.kana_lookups = kana, !.use_mecab = mecab] :
        kana \in BOOLEAN, mecab \in BOOLEAN}

InitCache ==
    /\ NoAudio
    /\ cfg \in CacheConfigs
    /\ acc_dict \in {FullDict, [key \in {<<"A">>} |-> FullDict[key]]}
    /\ lexicon \in {[known |-> FALSE, reading |-> << >>, headword |-> << >>],
                    [known |-> TRUE, reading |-> <<"A">>, headword |-> <<"k">>]}
    /\ cache = << >>
    /\ pc = "idle"
    /\ note = NoNote
    /\ call = [op |-> "none", n |-> 0, history |-> << >>]
    /\ result = NoResult

\* get_pronunciations(expr, recurse=recurse) called by do_task (line 285) or
\* iter_accents (line 170). call keeps the cache the call found and the
\* results of the calls before it.
Resolve(expr, recurse) ==
    /\ call.n < MaxCalls
    /\ \E r \in {get_pronunciations(expr, TRUE, recurse, 0, "top", FALSE,
                                     [cache |-> cache, log |-> << >>])} :
          /\ result' = [ret |-> r.ret, log |-> r.s.log]
          /\ cache' = r.s.cache
    /\ call' = [op |-> "resolve", expr |-> expr, recurse |-> recurse, n |-> call.n + 1,
                before |-> cache,
                history |-> IF call.n = 0 THEN << >>
                            ELSE Append(call.history,
                                        [key |-> cache_key(call.expr, TRUE, call.recurse),
                                         ret |-> result.ret])]
    /\ pc' = "done"
    /\ UNCHANGED <<cfg, acc_dict, lexicon, note>>
    /\ UNCHANGED audio_vars

NextCache == \E expr \in CacheExprs, recurse \in BOOLEAN : Resolve(expr, recurse)

SpecCache == InitCache /\ [][NextCache]_vars

----------------------------------------------------------------------------
(* Properties of the memoization *)

ResolvedAgain == pc = "done" /\ call.op = "resolve"
CallKey == <<call.expr, TRUE, call.recurse>>

\* the cache the call found held a result for its parameters
WasCached == \E i \in DOMAIN call.before : call.before[i].key = CallKey
CachedBefore == call.before[CHOOSE i \in DOMAIN call.before : call.before[i].key = CallKey].val

\* C13: a call whose parameters have a result in the cache returns that
\* result, which is what every earlier call with these parameters returned,
\* and does nothing else: no dictionary test, no mecab run, no call below it.
C13_CachedResultReturned ==
    (ResolvedAgain /\ WasCached) =>
        /\ result.ret = CachedBefore
        /\ \E i \in DOMAIN call.history : call.history[i].key = CallKey
        /\ \A i \in DOMAIN call.history :
               call.history[i].key = CallKey => call.history[i].ret = result.ret
        /\ Len(result.log) = 2
        /\ result.log[1].ev = "hit" /\ result.log[1].arg = call.expr
        /\ result.log[2] = RetEvent(0, result.ret)

C13_Witness ==
    /\ ResolvedAgain /\ WasCached
    /\ call.recurse /\ call.expr = <<"k", "/", "a">>
    /\ Len(result.ret) = 2
    /\ Len(call.before) = CacheSize

----------------------------------------------------------------------------
(* Formatter: format_pronunciations *)

MaxEntries == 2      \* longest entry list of a word given to the formatter

TaskModes == {"html", "number", "furigana"}

\* str.replace of a one-character style class
replace_all(txt, old, new) == [i \in DOMAIN txt |-> IF txt[i] = old THEN new ELSE txt[i]]

\* lines 83-89: convert_to_inline_style
RECURSIVE apply_styles(_, _)
apply_styles(txt, styles) ==
    IF styles = << >> THEN txt
    ELSE apply_styles(replace_all(txt, Head(styles).k, Head(styles).v), Tail(styles))

convert_to_inline_style(txt) == apply_styles(txt, cfg.styles)

\* lines 92-96
update_html(html_notation) ==
    LET inlined == convert_to_inline_style(html_notation)
    IN IF cfg.output_hiragana THEN to_hiragana(inlined) ELSE inlined

\* lines 175-180: the notation, or the exception "Unreachable."
get_notation(entry, mode) ==
    IF mode = "html" THEN [raised |-> FALSE, val |-> update_html(entry.html_notation)]
    ELSE IF mode = "number" THEN [raised |-> FALSE, val |-> entry.pitch_number]
    ELSE [raised |-> TRUE, val |-> << >>]

\* str.join
RECURSIVE join(_, _)
join(sep, strings) ==
    IF strings = << >> THEN << >>
    ELSE IF Len(strings) = 1 THEN strings[1]
    ELSE strings[1] \o sep \o join(sep, Tail(strings))

\* line 193: dict.fromkeys keeps the first of equal notations, in order
dedupe_mut_keep_all(notations) == notations
RECURSIVE dedupe(_)
dedupe(notations) ==
    IF notations = << >> THEN << >>
    ELSE LET front == dedupe(SubSeq(notations, 1, Len(notations) - 1))
             last == notations[Len(notations)]
         IN IF last \in Range(front) THEN front ELSE Append(front, last)

\* line 194
within_maximum(notations, max_results_per_word) ==
    max_results_per_word = 0 \/ Len(notations) <= max_results_per_word

\* lines 191-195: the loop over the words; ordered_dict is the sequence of
\* its items. An unknown mode raises at the first entry met.
RECURSIVE format_words(_, _, _, _, _)
format_words(pronunciations, i, mode, max_results_per_word, sep_single) ==
    IF i > Len(pronunciations) THEN [raised |-> FALSE, ordered_dict |-> << >>]
    ELSE LET word == pronunciations[i].k
             got == [j \in DOMAIN pronunciations[i].v |->
                         get_notation(pronunciations[i].v[j], mode)]
         IN IF \E j \in DOMAIN got : got[j].raised
            THEN [raised |-> TRUE, ordered_dict |-> << >>]
            ELSE LET entries == dedupe([j \in DOMAIN got |-> got[j].val])
                     rest == format_words(pronunciations, i + 1, mode,
                                          max_results_per_word, sep_single)
                 IN IF rest.raised THEN rest
                    ELSE IF within_maximum(entries, max_results_per_word)
                    THEN [raised |-> FALSE,
                          ordered_dict |-> <<[k |-> word, v |-> join(sep_single, entries)]>>
                                               \o rest.ordered_dict]
                    ELSE rest

\* lines 183-203
format_pronunciations(pronunciations, mode, max_results_per_word, sep_single, sep_multi, expr_sep) ==
    LET r == format_words(pronunciations, 1, mode, max_results_per_word, sep_single)
        od == r.ordered_dict
    IN IF r.raised THEN [raised |-> TRUE, txt |-> << >>]
       ELSE [raised |-> FALSE,
             txt |-> IF expr_sep # << >>
                     THEN join(sep_multi, [j \in DOMAIN od |-> od[j].k \o expr_sep \o od[j].v])
                     ELSE join(sep_multi, [j \in DOMAIN od |-> od[j].v])]

\* Entries whose notations coincide: F1 and F2 have the same pitch number,
\* F1 and F3 the same html once the style class is inlined, F1 and F2 the
\* same html once it is turned into hiragana.
F1 == FormattedEntry(<<"A">>, <<"0">>, <<"c", "A">>)
F2 == FormattedEntry(<<"A", "A">>, <<"0">>, <<"c", "a">>)
F3 == FormattedEntry(<<"A">>, <<"1">>, <<"s", "A">>)
FormatEntries == {F1, F2, F3}

EntryLists == SeqsUpTo(FormatEntries, MaxEntries)

\* AccentDicts of at most two words
Pronunciations ==
    {<< >>}
    \cup {<<[k |-> w, v |-> es]>> : w \in {<<"k">>, <<"A">>}, es \in EntryLists}
    \cup {<<[k |-> <<"k">>, v |-> es1], [k |-> <<"A">>, v |-> es2]>> :
              es1 \in EntryLists, es2 \in EntryLists}

FormatConfigs == {[DefaultConfig EXCEPT !.output_hiragana = hira] : hira \in BOOLEAN}

InitFormat ==
    /\ NoAudio
    /\ cfg \in FormatConfigs
    /\ acc_dict = << >>
    /\ lexicon = [known |-> FALSE, reading |-> << >>, headword |-> << >>]
    /\ cache = << >>
    /\ pc = "idle"
    /\ note = NoNote
    /\ call = NoCall
    /\ result = NoResult

Format(pronunciations, mode, max_results_per_word, expr_sep) ==
    /\ pc = "idle"
    /\ call' = [op |-> "format_pronunciations", pronunciations |-> pronunciations,
                mode |-> mode, max_results_per_word |-> max_results_per_word,
                sep_single |-> cfg.pa_reading_separator,
                sep_multi |-> cfg.word_separator, expr_sep |-> expr_sep]
    /\ result' = format_pronunciations(pronunciations, mode, max_results_per_word,
                                       cfg.pa_reading_separator, cfg.word_separator,
                                       expr_sep)
    /\ pc' = "done"
    /\ UNCHANGED <<cfg, acc_dict, lexicon, cache, note>>
    /\ UNCHANGED audio_vars

NextFormat ==
    /\ pc = "idle"
    /\ \E pronunciations \in Pronunciations, mode \in TaskModes,
          max_results_per_word \in 0..MaxEntries, expr_sep \in {<< >>, <<":">>} :
           Format(pronunciations, mode, max_results_per_word, expr_sep)

SpecFormat == InitFormat /\ [][NextFormat]_vars

----------------------------------------------------------------------------
(* Properties of the formatter *)

Formatted == pc = "done" /\ call.op = "format_pronunciations"

NotationsOf(word_item) ==
    [j \in DOMAIN word_item.v |-> get_notation(word_item.v[j], call.mode).val]

FirstIndex(seq, x) == CHOOSE i \in DOMAIN seq : seq[i] = x /\ \A j \in 1..(i - 1) : seq[j] # x

\* the distinct notations of a word, each once, in first-seen order
IsFirstSeenOrder(distinct, notations) ==
    /\ Range(distinct) = Range(notations)
    /\ Len(distinct) = Cardinality(Range(notations))
    /\ \A i, j \in DOMAIN distinct :
           i < j => FirstIndex(notations, distinct[i]) < FirstIndex(notations, distinct[j])

\* the one sequence that lists the distinct notations in first-seen order
DistinctOf(notations) ==
    CHOOSE distinct \in SeqsUpTo(Range(notations), Len(notations)) :
        IsFirstSeenOrder(distinct, notations)

\* what a word contributes: nothing, or its notations joined
RECURSIVE Joined(_, _)
Joined(sep, strings) ==
    IF Len(strings) = 0 THEN << >>
    ELSE IF Len(strings) = 1 THEN strings[1]
    ELSE Joined(sep, SubSeq(strings, 1, Len(strings) - 1)) \o sep \o strings[Len(strings)]

ContributionOf(word_item, distinct) ==
    IF call.max_results_per_word # 0 /\ Len(distinct) > call.max_results_per_word
    THEN << >>
    ELSE <<(IF call.expr_sep # << >> THEN word_item.k \o call.expr_sep ELSE << >>)
               \o Joined(call.sep_single, distinct)>>

\* C5: the output is made, word by word, of the word's distinct notations
\* in first-seen order, each once, and a word with more distinct notations
\* than a nonzero maximum contributes nothing at all.
C5_DedupAllOrNothing ==
    (Formatted /\ call.mode \in {"html", "number"}) =>
        /\ ~result.raised
        /\ LET words == call.pronunciations
               distinct(i) == DistinctOf(NotationsOf(words[i]))
           IN result.txt =
                  Joined(call.sep_multi,
                         IF Len(words) = 0 THEN << >>
                         ELSE IF Len(words) = 1
                              THEN ContributionOf(words[1], distinct(1))
                              ELSE ContributionOf(words[1], distinct(1))
                                   \o ContributionOf(words[2], distinct(2)))

C5_Witness ==
    /\ Formatted /\ call.mode = "html" /\ ~result.raised
    /\ Len(call.pronunciations) = 2
    /\ call.max_results_per_word = 1
    /\ Len(call.pronunciations[1].v) = 2
    /\ Cardinality(Range(NotationsOf(call.pronunciations[1]))) = 1
    /\ Cardinality(Range(NotationsOf(call.pronunciations[2]))) = 2
    /\ result.txt = NotationsOf(call.pronunciations[1])[1]

\* C6 as claimed: a mode other than html and number makes the formatter
\* raise, whatever the mapping, the empty one included.
C6_UnknownModeRaises ==
    (Formatted /\ call.mode \notin {"html", "number"}) => result.raised

----------------------------------------------------------------------------
(* Furigana: iter_furigana, format_furigana *)

\* mecab_controller.format_output: the word with its reading in brackets
format_output(word, reading) == word \o <<"[">> \o reading \o <<"]">>

\* helpers.unify_readings.unify_repr: a long vowel mark reads as the vowel
\* it lengthens
unify_repr(reading) ==
    [i \in DOMAIN reading |-> IF reading[i] = LONG_VOWEL_MARK THEN "a" ELSE reading[i]]

CommonSuffixLen(x, y) ==
    CHOOSE n \in 0..Len(x) :
        /\ n <= Len(y)
        /\ \A j \in 0..(n - 1) : x[Len(x) - j] = y[Len(y) - j]
        /\ \/ n = Len(x) \/ n = Len(y)
           \/ x[Len(x) - n] # y[Len(y) - n]

\* helpers.common_kana.adjust_reading: the ending the headword and its
\* reading share is replaced by the ending of the word as it is written
adjust_reading(word, headword, reading) ==
    IF word = headword THEN reading
    ELSE LET n == CommonSuffixLen(headword, reading)
             stem == Len(headword) - n
         IN SubSeq(reading, 1, Len(reading) - n) \o SubSeq(word, stem + 1, Len(word))

\* helpers.mingle_readings.mingle_readings: one annotation holding the
\* readings of all candidates, each wrapped, separated by sep
mingle_readings(readings, sep, wrap) ==
    LET word == word_reading(readings[1]).word
        each == [i \in DOMAIN readings |-> wrap \o word_reading(readings[i]).reading \o wrap]
    IN format_output(word, join(sep, each))

\* cfg.furigana.is_blocklisted, cfg.furigana.can_lookup_in_db
furigana_is_blocklisted(word) == word \in cfg.furigana_blocklist
can_lookup_in_db(headword) == cfg.database_lookups /\ headword \notin cfg.mecab_only

has_long_vowel_mark(entry) == LONG_VOWEL_MARK \in Range(entry.katakana_reading)

\* lines 213-217: sorted() is stable, also with reverse=True
sort_entries_mut_unsorted(entries) == entries
sort_entries(entries) ==
    LET marked == SelectSeq(entries, has_long_vowel_mark)
        plain == SelectSeq(entries, LAMBDA e : ~has_long_vowel_mark(e))
    IN IF cfg.prefer_long_vowel_mark THEN marked \o plain ELSE plain \o marked

\* lines 218-220: readings.setdefault for each entry. readings is the dict
\* as the sequence of its items.
RECURSIVE add_entry_readings(_, _, _)
add_entry_readings(readings, entries, out) ==
    IF entries = << >> THEN readings
    ELSE Bind(adjust_reading(out.word, out.headword,
                             to_hiragana(Head(entries).katakana_reading)),
              LAMBDA reading :
                  Bind(IF dict_has(readings, unify_repr(reading)) THEN readings
                       ELSE Append(readings, [k |-> unify_repr(reading),
                                              v |-> format_output(out.word, reading)]),
                       LAMBDA added : add_entry_readings(added, Tail(entries), out)))

\* lines 206-222. s is the cache and the trace so far.
iter_furigana(out, s) ==
    LET own == IF out.katakana_reading # << >>
               THEN <<[k |-> unify_repr(hiragana_reading(out)),
                       v |-> format_output(out.word, hiragana_reading(out))]>>
               ELSE << >>
    IN IF can_lookup_in_db(out.headword)
       THEN Bind(iter_accents_call(out.headword, s),
                 LAMBDA r :
                     Bind(add_entry_readings(
                              own, sort_entries(iter_accents_of(out.headword, r.ret)), out),
                          LAMBDA readings :
                              [readings |-> [i \in DOMAIN readings |-> readings[i].v],
                               entries |-> iter_accents_of(out.headword, r.ret),
                               s |-> r.s]))
       ELSE [readings |-> [i \in DOMAIN own |-> own[i].v], entries |-> << >>, s |-> s]

\* lines 228-235: what is returned for the readings found
furigana_for_mut_plain(word, readings) ==
    IF Len(readings) = 1 THEN readings[1]
    ELSE IF 1 < Len(readings) /\ Len(readings) <= cfg.furigana_maximum_results
         THEN mingle_readings(readings, cfg.reading_separator, cfg.wrap_readings)
         ELSE word
furigana_for(word, readings) ==
    IF readings # << >>
    THEN IF 1 < Len(readings) /\ Len(readings) <= cfg.furigana_maximum_results
         THEN mingle_readings(readings, cfg.reading_separator, cfg.wrap_readings)
         ELSE readings[1]
    ELSE word

\* lines 225-235
format_furigana(out, s) ==
    IF is_kana_word(out.word) \/ furigana_is_blocklisted(out.word)
    THEN [txt |-> out.word, readings |-> << >>, entries |-> << >>,
          looked_up |-> FALSE, s |-> s]
    ELSE Bind(iter_furigana(out, s),
              LAMBDA r : [txt |-> furigana_for(out.word, r.readings),
                          readings |-> r.readings, entries |-> r.entries,
                          looked_up |-> TRUE, s |-> r.s])

MaxResults == 2      \* largest cfg.furigana.maximum_results tried

E4 == FormattedEntry(<<"A", "-">>, <<"1">>, <<"c", "A", "-">>)
E5 == FormattedEntry(<<"A", "A", "A">>, <<"3">>, <<"c", "A", "A", "A">>)

\* a word with no entry, one reading, long vowel variants, three readings
FuriganaDicts ==
    { << >>,
      (<<"k">> :> <<E1>>),
      (<<"k">> :> <<E2, E4>>) @@ (<<"k", "a">> :> <<E3>>),
      (<<"k">> :> <<E4, E1, E2, E5>>) @@ (<<"A">> :> <<E1>>) }

FuriganaConfigs ==
    {[DefaultConfig EXCEPT !.database_lookups = db, !.prefer_long_vowel_mark = mark,
                           !.furigana_maximum_results = max,
                           !.furigana_blocklist = blocklist] :
        db \in BOOLEAN, mark \in BOOLEAN, max \in 0..MaxResults,
        blocklist \in {{}, {<<"k">>}}}

Tokens ==
    {ParsedToken(word, reading, headword) :
        word \in {<<"k">>, <<"a">>, <<"k", "a">>},
        reading \in {<< >>, <<"A">>, <<"A", "A">>, <<"A", "A", "A">>},
        headword \in {<<"k">>, <<"k", "a">>}}

InitFurigana ==
    /\ NoAudio
    /\ cfg \in FuriganaConfigs
    /\ acc_dict \in FuriganaDicts
    /\ lexicon \in LexiconChoices
    /\ cache = << >>
    /\ pc = "idle"
    /\ note = NoNote
    /\ call = NoCall
    /\ result = NoResult

\* generate_furigana, line 257: format_furigana(out)
FormatFurigana(out) ==
    /\ pc = "idle"
    /\ LET r == format_furigana(out, [cache |-> cache, log |-> << >>])
       IN /\ result' = [txt |-> r.txt, readings |-> r.readings, entries |-> r.entries,
                        looked_up |-> r.looked_up, log |-> r.s.log]
          /\ cache' = r.s.cache
    /\ call' = [op |-> "format_furigana", out |-> out]
    /\ pc' = "done"
    /\ UNCHANGED <<cfg, acc_dict, lexicon, note>>
    /\ UNCHANGED audio_vars

NextFurigana == \E out \in Tokens : FormatFurigana(out)

SpecFurigana == InitFurigana /\ [][NextFurigana]_vars

----------------------------------------------------------------------------
(* Properties of the furigana composer *)

\* a token that is neither pure kana nor blocklisted was formatted
Composed ==
    /\ pc = "done" /\ call.op = "format_furigana"
    /\ ~is_kana_word(call.out.word)
    /\ call.out.word \notin cfg.furigana_blocklist

Candidates == Len(result.readings)

\* C4 as claimed: one candidate is returned as it is, two up to the maximum
\* are merged, and more than the maximum, or none, give the plain word.
C4_Original ==
    Composed =>
        /\ Candidates = 1 => result.txt = result.readings[1]
        /\ (1 < Candidates /\ Candidates <= cfg.furigana_maximum_results) =>
               result.txt = mingle_readings(result.readings, cfg.reading_separator,
                                            cfg.wrap_readings)
        /\ (1 < Candidates /\ Candidates > cfg.furigana_maximum_results) =>
               result.txt = call.out.word
        /\ Candidates = 0 => result.txt = call.out.word

\* C4: one candidate is returned as it is, two up to the maximum are merged,
\* more than the maximum give the first candidate, none gives the plain word.
C4_FirstWhenTooMany ==
    Composed =>
        /\ Candidates = 1 => result.txt = result.readings[1]
        /\ (1 < Candidates /\ Candidates <= cfg.furigana_maximum_results) =>
               /\ result.txt = mingle_readings(result.readings, cfg.reading_separator,
                                               cfg.wrap_readings)
               /\ result.txt \notin Range(result.readings)
        /\ (1 < Candidates /\ Candidates > cfg.furigana_maximum_results) =>
               result.txt = result.readings[1] /\ result.txt # call.out.word
        /\ Candidates = 0 => result.txt = call.out.word

C4_Witness ==
    /\ Composed
    /\ Candidates > cfg.furigana_maximum_results
    /\ cfg.furigana_maximum_results > 1
    /\ result.txt = result.readings[1]

\* the reading an entry of the dictionary gives the token
EntryReading(entry) ==
    adjust_reading(call.out.word, call.out.headword, to_hiragana(entry.katakana_reading))

\* two entries found for the token read the same and are written differently,
\* one with the long vowel mark and one without
AreVariants(marked, plain) ==
    /\ has_long_vowel_mark(marked) /\ ~has_long_vowel_mark(plain)
    /\ unify_repr(EntryReading(marked)) = unify_repr(EntryReading(plain))
    /\ EntryReading(marked) # EntryReading(plain)

\* the candidates kept that read as the entry does
KeptLike(entry) ==
    {i \in DOMAIN result.readings :
        unify_repr(word_reading(result.readings[i]).reading)
            = unify_repr(EntryReading(entry))}

\* the token came with a reading of its own that reads as the entry does
OwnReadingLike(entry) ==
    /\ call.out.katakana_reading # << >>
    /\ unify_repr(hiragana_reading(call.out)) = unify_repr(EntryReading(entry))

PreferredOf(marked, plain) == IF cfg.prefer_long_vowel_mark THEN marked ELSE plain

\* C11 as claimed: of two long vowel mark variants exactly one is kept, the
\* preferred one, for any token.
C11_Original ==
    Composed =>
        \A marked, plain \in Range(result.entries) :
            AreVariants(marked, plain) =>
                \E i \in DOMAIN result.readings :
                    /\ KeptLike(marked) = {i}
                    /\ result.readings[i] =
                           format_output(call.out.word,
                                         EntryReading(PreferredOf(marked, plain)))

\* C11: of two long vowel mark variants found in the dictionary exactly one
\* candidate is kept; it is the preferred variant when the token has no
\* reading of its own that reads the same, and the token's own reading when
\* it has one.
C11_PreferredVariantKept ==
    Composed =>
        \A marked, plain \in Range(result.entries) :
            AreVariants(marked, plain) =>
                \E i \in DOMAIN result.readings :
                    /\ KeptLike(marked) = {i}
                    /\ result.readings[i] =
                           format_output(
                               call.out.word,
                               IF OwnReadingLike(marked) THEN hiragana_reading(call.out)
                               ELSE EntryReading(PreferredOf(marked, plain)))

C11_Witness ==
    /\ Composed /\ cfg.prefer_long_vowel_mark
    /\ call.out.katakana_reading = <<"A">>
    /\ \E marked, plain \in Range(result.entries) :
           /\ AreVariants(marked, plain)
           /\ format_output(call.out.word, EntryReading(marked)) \in Range(result.readings)
           /\ format_output(call.out.word, EntryReading(plain)) \notin Range(result.readings)
    /\ Len(result.readings) > 2

----------------------------------------------------------------------------
(* Furigana of a text: generate_furigana *)

Parseable == {"k", "a", "A", LONG_VOWEL_MARK}

\* helpers.tokens.tokenize: the text as alternating runs of characters that
\* can be parsed (kanji, kana) and of all others
RECURSIVE tokenize(_)
tokenize(text) ==
    IF text = << >> THEN << >>
    ELSE LET parseable == text[1] \in Parseable
             run == CHOOSE n \in 1..Len(text) :
                        /\ \A j \in 1..n : (text[j] \in Parseable) = parseable
                        /\ n = Len(text) \/ (text[n + 1] \in Parseable) # parseable
         IN <<[parseable |-> parseable, text |-> SubSeq(text, 1, run)]>>
                \o tokenize(SubSeq(text, run + 1, Len(text)))

\* str.strip
RECURSIVE strip(_)
strip(text) ==
    IF text = << >> THEN text
    ELSE IF text[1] = " " THEN strip(Tail(text))
    ELSE IF text[Len(text)] = " " THEN strip(SubSeq(text, 1, Len(text) - 1))
    ELSE text

\* lines 256-257: for out in mecab_translate(token)
RECURSIVE furigana_of_tokens(_, _, _)
furigana_of_tokens(outs, i, s) ==
    IF i > Len(outs) THEN [substrings |-> << >>, s |-> s]
    ELSE Bind(format_furigana(outs[i], s),
              LAMBDA r :
                  Bind(furigana_of_tokens(outs, i + 1, r.s),
                       LAMBDA rest : [substrings |-> <<r.txt>> \o rest.substrings,
                                      s |-> rest.s]))

\* lines 238-246: the furigana of the whole text, or None (the empty text)
try_lookup_full_text(text, s) ==
    Bind(format_furigana(ParsedToken(text, << >>, text), s),
         LAMBDA r : [furigana |-> IF r.txt # text THEN r.txt ELSE << >>, s |-> r.s])

\* what the loop over the tokens made of span i, for the trace
SpanEvent(i, token, piece) ==
    [ev |-> "span", i |-> i, parseable |-> token.parseable, text |-> token.text,
     piece |-> piece]

\* line 253: the lookup of the whole span gave an annotation
full_text_found_mut_never(full) == FALSE
full_text_found(full) == full.furigana # << >>

\* line 259: what a token that is not parseable contributes
literal_piece_mut_drop(token) == << >>
literal_piece(token) == token.text

\* lines 251-259: the loop over the tokens
RECURSIVE furigana_substrings(_, _, _)
furigana_substrings(tokens, i, s) ==
    IF i > Len(tokens) THEN [substrings |-> << >>, s |-> s]
    ELSE LET token == tokens[i]
         IN IF token.parseable
            THEN Bind(try_lookup_full_text(token.text, s),
                      LAMBDA full :
                          IF full_text_found(full)
                          THEN Bind(furigana_substrings(
                                        tokens, i + 1,
                                        Logged(full.s, <<SpanEvent(i, token, full.furigana)>>)),
                                    LAMBDA rest :
                                        [substrings |-> <<full.furigana>> \o rest.substrings,
                                         s |-> rest.s])
                          ELSE Bind(furigana_of_tokens(
                                        mecab_translate(token.text), 1,
                                        Logged(full.s, <<MecabEvent(token.text, 0, FALSE)>>)),
                                    LAMBDA parsed :
                                        Bind(furigana_substrings(
                                                 tokens, i + 1,
                                                 Logged(parsed.s,
                                                        <<SpanEvent(i, token,
                                                                    join(<< >>, parsed.substrings))>>)),
                                             LAMBDA rest :
                                                 [substrings |-> parsed.substrings
                                                                     \o rest.substrings,
                                                  s |-> rest.s])))
            ELSE Bind(furigana_substrings(
                          tokens, i + 1,
                          Logged(s, <<SpanEvent(i, token, literal_piece(token))>>)),
                      LAMBDA rest : [substrings |-> <<literal_piece(token)>> \o rest.substrings,
                                     s |-> rest.s])

\* lines 249-261
generate_furigana(src_text, s) ==
    Bind(furigana_substrings(tokenize(src_text), 1, s),
         LAMBDA r : [txt |-> strip(join(<< >>, r.substrings)), s |-> r.s])

MaxText == 4         \* longest text given to generate_furigana

\* kanji, kana, a space and a Latin letter
Texts == SeqsUpTo({"k", "a", " ", "x"}, MaxText)

GenerateConfigs ==
    {[DefaultConfig EXCEPT !.database_lookups = db, !.furigana_blocklist = blocklist] :
        db \in BOOLEAN, blocklist \in {{}, {<<"k">>}}}

InitGenerate ==
    /\ NoAudio
    /\ cfg \in GenerateConfigs
    /\ acc_dict \in FuriganaDicts
    /\ lexicon \in LexiconChoices
    /\ cache = << >>
    /\ pc = "idle"
    /\ note = NoNote
    /\ call = NoCall
    /\ result = NoResult

\* do_task, line 282: generate_furigana(src_text)
GenerateFurigana(src_text) ==
    /\ pc = "idle"
    /\ \E r \in {generate_furigana(src_text, [cache |-> cache, log |-> << >>])} :
          /\ result' = [txt |-> r.txt, log |-> r.s.log]
          /\ cache' = r.s.cache
    /\ call' = [op |-> "generate_furigana", src_text |-> src_text]
    /\ pc' = "done"
    /\ UNCHANGED <<cfg, acc_dict, lexicon, note>>
    /\ UNCHANGED audio_vars

NextGenerate ==
    /\ pc = "idle"
    /\ \E src_text \in Texts : GenerateFurigana(src_text)

SpecGenerate == InitGenerate /\ [][NextGenerate]_vars

----------------------------------------------------------------------------
(* Properties of generate_furigana *)

Generated == pc = "done" /\ call.op = "generate_furigana"

\* what was made of each span, in the order it was made
Spans == SelectSeq(result.log, LAMBDA e : e.ev = "span")
Pieces == [i \in DOMAIN Spans |-> Spans[i].piece]
TokenizerSpans == tokenize(call.src_text)

\* one piece per span of the tokenizer, in its order, a literal span being
\* its own piece
OnePiecePerSpan ==
    /\ Len(Spans) = Len(TokenizerSpans)
    /\ \A i \in DOMAIN Spans :
           /\ Spans[i].i = i
           /\ Spans[i].text = TokenizerSpans[i].text
           /\ Spans[i].parseable = TokenizerSpans[i].parseable
           /\ ~Spans[i].parseable => Spans[i].piece = Spans[i].text

\* C12 as claimed: the output is the concatenation of the pieces, every
\* literal span verbatim.
C12_Original ==
    Generated => OnePiecePerSpan /\ result.txt = join(<< >>, Pieces)

\* C12: the output is the concatenation, in the order of the spans, of one
\* piece per span, every literal span verbatim, with the white space at
\* both ends of the concatenation removed.
C12_StrippedConcatenation ==
    Generated => OnePiecePerSpan /\ result.txt = strip(join(<< >>, Pieces))

C12_Witness ==
    /\ Generated
    /\ Len(Spans) = 3
    /\ ~Spans[2].parseable /\ Spans[2].text = <<"x">>
    /\ Spans[1].piece # Spans[1].text
    /\ result.txt = Spans[1].piece \o <<"x">> \o Spans[3].piece

\* where in the trace span i was finished, and where the work on it began
SpanPos(i) == CHOOSE p \in DOMAIN result.log : result.log[p] = Spans[i]
SpanStart(i) == IF i = 1 THEN 1 ELSE SpanPos(i - 1) + 1

\* the runs of the analyser made while span i was worked on
MecabRuns(i) ==
    {p \in SpanStart(i)..SpanPos(i) : result.log[p].ev = "mecab"}

\* the annotation the lookup of the whole text gives, << >> for none
FullTextAnnotation(text) ==
    try_lookup_full_text(text, [cache |-> << >>, log |-> << >>]).furigana

\* C20: the analyser runs on a parseable span only when the lookup of the
\* whole span gave no annotation, and then once, on that span; when the
\* lookup gave an annotation, that annotation is the piece of the span and
\* the analyser is not run; it is never run for a literal span.
C20_AnalyzerOnlyAfterFailedLookup ==
    Generated =>
        \A i \in DOMAIN Spans :
            LET found == FullTextAnnotation(Spans[i].text)
            IN IF Spans[i].parseable /\ found = << >>
               THEN /\ Cardinality(MecabRuns(i)) = 1
                    /\ \A p \in MecabRuns(i) : result.log[p].expr = Spans[i].text
               ELSE /\ MecabRuns(i) = {}
                    /\ Spans[i].parseable => Spans[i].piece = found

C20_Witness ==
    /\ Generated
    /\ \E i, j \in DOMAIN Spans :
           /\ Spans[i].parseable /\ MecabRuns(i) = {}
           /\ Spans[i].piece # Spans[i].text
           /\ Spans[j].parseable /\ MecabRuns(j) # {}
           /\ Spans[j].piece # Spans[j].text

----------------------------------------------------------------------------
(* Tasks: DoTasks *)

MaxTasks == 2        \* most tasks configured for the note type

Task(src_field, dst_field, mode) ==
    [src_field |-> src_field, dst_field |-> dst_field, mode |-> mode]

\* helpers.profiles.iter_tasks: the configured tasks, those reading
\* src_field when one is given
iter_tasks(src_field) ==
    SelectSeq(cfg.tasks, LAMBDA task : src_field = "" \/ task.src_field = src_field)

\* mw.col.media.strip: the text without its references to media files
media_strip(text) == SelectSeq(text, LAMBDA c : c # "@")

\* str.lower, for the one marker that has capitals
lower(text) == [i \in DOMAIN text |-> IF text[i] = "N" THEN "n" ELSE text[i]]

\* "No pitch accent data" is the character "N", "no pitch accent data" is "n"
NO_PITCH_ACCENT_DATA == <<"N">>

\* lines 294-315
can_fill_destination(fields, task, overwrite) ==
    IF task.src_field = "" \/ task.dst_field = "" THEN FALSE
    ELSE IF task.src_field \notin DOMAIN fields \/ task.dst_field \notin DOMAIN fields
    THEN FALSE
    ELSE IF Contains(lower(fields[task.dst_field]), lower(NO_PITCH_ACCENT_DATA)) THEN TRUE
    ELSE IF Len(htmlToTextLine(fields[task.dst_field])) = 0 \/ overwrite THEN TRUE
    ELSE IF cfg.regenerate_readings THEN TRUE
    ELSE FALSE

\* line 280: the source text the readings are generated from
source_text(fields, task) == strip(media_strip(fields[task.src_field]))

\* lines 281-290: what is generated for the destination field
generated_text(src_text, mode, s) ==
    IF mode = "furigana" THEN generate_furigana(src_text, s)
    ELSE Bind(get_pronunciations(src_text, TRUE, TRUE, 0, "top", FALSE, s),
              LAMBDA r :
                  [txt |-> format_pronunciations(r.ret, mode, cfg.pa_maximum_results,
                                                 cfg.pa_reading_separator,
                                                 cfg.word_separator, << >>).txt,
                   s |-> r.s])

\* lines 282-290: the new value of the destination field
written_text_mut_append(old_text, new_text) == old_text \o new_text
written_text(old_text, new_text) == new_text

\* line 280: the condition under which the task writes
will_write_mut_blank_source(fields, task, overwrite) ==
    can_fill_destination(fields, task, overwrite)
will_write(fields, task, overwrite) ==
    /\ can_fill_destination(fields, task, overwrite)
    /\ source_text(fields, task) # << >>

\* lines 278-292
do_task(fields, task, overwrite, s) ==
    IF will_write(fields, task, overwrite)
    THEN Bind(generated_text(source_text(fields, task), task.mode, s),
              LAMBDA g :
                  [changed |-> TRUE,
                   fields |-> [fields EXCEPT ![task.dst_field] = written_text(@, g.txt)],
                   s |-> g.s])
    ELSE [changed |-> FALSE, fields |-> fields, s |-> s]

do_task_or_changed_mut_short_circuit(fields, task, overwrite, changed, s) ==
    IF changed
    THEN [changed |-> TRUE, wrote |-> FALSE, fields |-> fields, s |-> s]
    ELSE Bind(do_task(fields, task, overwrite, s),
              LAMBDA r : [changed |-> r.changed, wrote |-> r.changed,
                          fields |-> r.fields, s |-> r.s])

\* line 275: self.do_task(task) or changed; wrote is what do_task returned
do_task_or_changed(fields, task, overwrite, changed, s) ==
    Bind(do_task(fields, task, overwrite, s),
         LAMBDA r : [changed |-> r.changed \/ changed, wrote |-> r.changed,
                     fields |-> r.fields, s |-> r.s])

\* lines 273-276. attempts lists, per task, the fields it found and whether
\* it wrote.
RECURSIVE run_tasks(_, _, _, _, _, _)
run_tasks(tasks, i, fields, overwrite, changed, s) ==
    IF i > Len(tasks)
    THEN [changed |-> changed, fields |-> fields, attempts |-> << >>, s |-> s]
    ELSE Bind(do_task_or_changed(fields, tasks[i], overwrite, changed, s),
              LAMBDA r :
                  Bind(run_tasks(tasks, i + 1, r.fields, overwrite, r.changed, r.s),
                       LAMBDA rest :
                           [rest EXCEPT !.attempts =
                                <<[task |-> tasks[i], before |-> fields,
                                   after |-> r.fields, wrote |-> r.wrote]>> \o @]))

TaskChoices ==
    { Task("F1", "F2", "html"), Task("F1", "F2", "furigana"),
      Task("F2", "F1", "number"), Task("F1", "F3", "html"),
      Task("", "F2", "html"), Task("F3", "F2", "number"),
      Task("F1", "F1", "furigana") }

SourceTexts == {<< >>, <<" ", "@">>, <<"k">>, <<"k", "a", "@">>}
DestinationTexts == {<< >>, <<"<">>, <<"x">>, <<"x", "N">>}

TaskConfigs ==
    {[DefaultConfig EXCEPT !.tasks = tasks, !.regenerate_readings = regenerate] :
        tasks \in SeqsUpTo(TaskChoices, MaxTasks), regenerate \in BOOLEAN}

InitTasks ==
    /\ NoAudio
    /\ cfg \in TaskConfigs
    /\ acc_dict = FullDict
    /\ lexicon = [known |-> TRUE, reading |-> <<"A">>, headword |-> <<"k">>]
    /\ cache = << >>
    /\ pc = "idle"
    /\ note \in {("F1" :> src) @@ ("F2" :> dst) :
                     src \in SourceTexts, dst \in DestinationTexts}
    /\ call = NoCall
    /\ result = NoResult

\* DoTasks(note, src_field, overwrite).run(changed); src_field None is ""
Run(src_field, overwrite, changed) ==
    /\ pc = "idle"
    /\ \E r \in {run_tasks(iter_tasks(src_field), 1, note, overwrite, changed,
                           [cache |-> cache, log |-> << >>])} :
          /\ note' = r.fields
          /\ cache' = r.s.cache
          /\ result' = [changed |-> r.changed, attempts |-> r.attempts,
                        fields |-> r.fields]
    /\ call' = [op |-> "run", src_field |-> src_field, overwrite |-> overwrite,
                changed |-> changed, fields |-> note]
    /\ pc' = "done"
    /\ UNCHANGED <<cfg, acc_dict, lexicon>>
    /\ UNCHANGED audio_vars

\* the same DoTasks run a second time on the note the first run left
Rerun ==
    /\ pc = "done" /\ call.op = "run"
    /\ \E r \in {run_tasks(iter_tasks(call.src_field), 1, note, call.overwrite,
                           call.changed, [cache |-> cache, log |-> << >>])} :
          /\ note' = r.fields
          /\ cache' = r.s.cache
          /\ result' = [result EXCEPT !.attempts = r.attempts, !.changed = r.changed]
    /\ pc' = "rerun"
    /\ UNCHANGED <<cfg, acc_dict, lexicon, call>>
    /\ UNCHANGED audio_vars

NextTasks ==
    \/ \E src_field \in {"", "F1", "F2"}, overwrite \in BOOLEAN, changed \in BOOLEAN :
           Run(src_field, overwrite, changed)
    \/ Rerun

SpecTasks == InitTasks /\ [][NextTasks]_vars

----------------------------------------------------------------------------
(* Properties of the tasks *)

Ran == pc = "done" /\ call.op = "run"

FieldsExist(attempt) ==
    {attempt.task.src_field, attempt.task.dst_field} \subseteq DOMAIN attempt.before

\* placeholder in the destination, destination empty, overwrite, regenerate
MayFill(attempt) ==
    LET dst == attempt.before[attempt.task.dst_field]
    IN \/ \E i \in DOMAIN dst : dst[i] \in {"N", "n"}
       \/ htmlToTextLine(dst) = << >>
       \/ call.overwrite
       \/ cfg.regenerate_readings

HasSourceText(attempt) ==
    \E i \in DOMAIN attempt.before[attempt.task.src_field] :
        attempt.before[attempt.task.src_field][i] \notin {" ", "@"}

ExpectedText(src_text, mode) ==
    generated_text(src_text, mode, [cache |-> << >>, log |-> << >>]).txt

\* the destination holds what is generated from the source text, and no
\* other field changed
FilledFromSource(attempt) ==
    attempt.after =
        [attempt.before EXCEPT ![attempt.task.dst_field] =
             ExpectedText(strip(media_strip(attempt.before[attempt.task.src_field])),
                          attempt.task.mode)]

Filled(attempt) == attempt.wrote /\ FilledFromSource(attempt)

Untouched(attempt) == ~attempt.wrote /\ attempt.after = attempt.before

\* C7 as claimed: a task fills its destination exactly when both fields
\* exist and the destination may be filled.
C7_Original ==
    Ran => \A i \in DOMAIN result.attempts :
               LET attempt == result.attempts[i]
               IN IF FieldsExist(attempt) /\ MayFill(attempt)
                  THEN FilledFromSource(attempt) ELSE attempt.after = attempt.before

\* C7: a task fills its destination from the source text exactly when both
\* fields exist, the destination may be filled and the source field holds
\* text; otherwise it leaves the note as it is.
C7_FillPolicy ==
    Ran => \A i \in DOMAIN result.attempts :
               LET attempt == result.attempts[i]
               IN IF FieldsExist(attempt) /\ MayFill(attempt) /\ HasSourceText(attempt)
                  THEN Filled(attempt) ELSE Untouched(attempt)

C7_Witness ==
    /\ Ran /\ ~call.overwrite /\ ~cfg.regenerate_readings
    /\ Len(result.attempts) = 2
    /\ Filled(result.attempts[1]) /\ result.attempts[1].before["F2"] = <<"x", "N">>
    /\ Untouched(result.attempts[2]) /\ FieldsExist(result.attempts[2])
    /\ HasSourceText(result.attempts[2])

\* the fields the tasks of the run read
SourceFields ==
    {result.attempts[i].task.src_field : i \in DOMAIN result.attempts}
        \cap DOMAIN call.fields

\* the first run left the text of every source field as it found it
SourcesUnchanged == \A f \in SourceFields : result.fields[f] = call.fields[f]

\* C8: when the first run left the source texts unchanged, a second run
\* with the same arguments leaves every field as the first run left it.
C8_RerunChangesNothing ==
    (pc = "rerun" /\ SourcesUnchanged) => note = result.fields

C8_Witness ==
    /\ pc = "rerun" /\ SourcesUnchanged
    /\ call.overwrite
    /\ \E i \in DOMAIN result.attempts : result.attempts[i].wrote
    /\ result.fields # call.fields

----------------------------------------------------------------------------
(* Audio sources: AudioSource and what its url leads to *)

\* A file name is the sequence of its pieces; a url is a string.
Urls == {"u1", "u2"}
Names == {"n1", "n2"}

\* pronunciation_data: None, or what was parsed; meta tells whether it is a
\* dict with the key "meta", origin names the url the data was read from
NoData == [loaded |-> FALSE, meta |-> FALSE, origin |-> "", original_url |-> ""]
ParsedData(has_meta, url) == [loaded |-> TRUE, meta |-> has_meta, origin |-> url, original_url |-> ""]

AudioSource(enabled, name, url) == [enabled |-> enabled, name |-> name, url |-> url, pronunciation_data |-> NoData]

\* the outcome of a step: the exception it raised, if any, and its value
Returned(value) == [raised |-> "", value |-> value]
Raised(exception) == [raised |-> exception, value |-> NoData]

file_exists(files, path) == path \in DOMAIN files /\ files[path].kind # "empty"

cache_path(source) == <<"audio_source_", source.name, ".pickle">>

is_ready(source) == source.pronunciation_data.loaded /\ source.pronunciation_data.meta

cache_exists(source, files) == file_exists(files, cache_path(source))

\* the bytes behind a url: JSON of a dict with "meta", JSON of something
\* else, text that is no JSON, bytes that are neither text nor a zip, a zip
\* with a good .json member, with a .json member that is no JSON, without a
\* .json member, with a .json member that cannot be read
Contents == {"json", "json_no_meta", "text", "binary", "zip", "zip_text", "zip_no_json", "zip_broken_member"}
ZipContents == {"zip", "zip_text", "zip_no_json", "zip_broken_member"}

\* json.loads / json.load of the bytes
json_loads(content, url) ==
    CASE content = "json" -> Returned(ParsedData(TRUE, url))
      [] content = "json_no_meta" -> Returned(ParsedData(FALSE, url))
      [] content = "text" -> Raised("JSONDecodeError")
      [] OTHER -> Raised("UnicodeDecodeError")

\* zipfile.ZipFile(...) of the bytes
ZipFile(content) == IF content \in ZipContents THEN Returned(content) ELSE Raised("BadZipFile")

\* lines 211-222: the .json member of the archive
read_zip(content) ==
    CASE content = "zip" -> Returned("json")
      [] content = "zip_text" -> Returned("text")
      [] content = "zip_no_json" -> Raised("AudioManagerException")
      [] OTHER -> Raised("AudioManagerException")

\* zipfile.ZipFile(...) and json.loads(read_zip(...)), lines 169-171, 185-186
json_of_zip(content, url) ==
    IF ZipFile(content).raised # "" THEN ZipFile(content)
    ELSE IF read_zip(content).raised # "" THEN Raised(read_zip(content).raised)
    ELSE json_loads(read_zip(content).value, url)

\* lines 225-240
download(origin) ==
    CASE origin.fetch = "OSError" -> Raised("AudioManagerException")
      [] origin.fetch = "status_404" -> Raised("AudioManagerException")
      [] OTHER -> Returned(origin.content)

\* lines 166-176
read_local_json(source, origin) ==
    IF origin.zip_name THEN json_of_zip(origin.content, source.url)
    ELSE json_loads(origin.content, source.url)

\* lines 178-186
download_remote_json(source, origin) ==
    IF download(origin).raised # "" THEN download(origin)
    ELSE IF json_loads(download(origin).value, source.url).raised = "UnicodeDecodeError"
         THEN json_of_zip(download(origin).value, source.url)
         ELSE json_loads(download(origin).value, source.url)

\* lines 161-164
read_cache(source, files) ==
    IF files[cache_path(source)].kind = "data"
    THEN Returned(files[cache_path(source)].data)
    ELSE Raised("UnpicklingError")

\* lines 143-146: the getter of original_url
original_url(source) ==
    IF ~is_ready(source) THEN Raised("RuntimeError")
    ELSE IF source.pronunciation_data.original_url = "" THEN Raised("KeyError")
    ELSE Returned(source.pronunciation_data.original_url)

\* lines 153-159: record the url in the data and write the cache file
pickle_self(source, files) ==
    IF ~is_ready(source)
    THEN [raised |-> "RuntimeError", source |-> source, files |-> files]
    ELSE LET data == [source.pronunciation_data EXCEPT !.original_url = source.url]
         IN [raised |-> "",
             source |-> [source EXCEPT !.pronunciation_data = data],
             files |-> [f \in DOMAIN files \cup {cache_path(source)} |->
                           IF f = cache_path(source)
                           THEN [kind |-> "data", data |-> data]
                           ELSE files[f]]]

is_local(source, origin) == origin.local

\* lines 289-293: read the local file or download, then write the cache
read_from_origin(source, files, origin, log) ==
    LET got == IF is_local(source, origin)
               THEN read_local_json(source, origin)
               ELSE download_remote_json(source, origin)
    IN IF got.raised # ""
       THEN [raised |-> got.raised, source |-> source, files |-> files,
             log |-> Append(log, "origin")]
       ELSE LET p == pickle_self([source EXCEPT !.pronunciation_data = got.value], files)
            IN [raised |-> p.raised, source |-> p.source, files |-> p.files,
                log |-> IF p.raised = "" THEN log \o <<"origin", "pickle">>
                        ELSE Append(log, "origin")]

url_matches_mut_always(source, url) == TRUE

\* line 287
url_matches(source, url) == source.url = url

\* lines 282-293
_read_pronunciation_data(source, files, origin) ==
    IF cache_exists(source, files)
    THEN LET c == read_cache(source, files)
             cached == [source EXCEPT !.pronunciation_data = c.value]
         IN IF c.raised # ""
            THEN [raised |-> c.raised, source |-> source, files |-> files,
                  log |-> <<"cache">>]
            ELSE IF original_url(cached).raised # ""
            THEN [raised |-> original_url(cached).raised, source |-> cached,
                  files |-> files, log |-> <<"cache">>]
            ELSE IF url_matches(cached, original_url(cached).value)
            THEN [raised |-> "", source |-> cached, files |-> files,
                  log |-> <<"cache">>]
            ELSE read_from_origin(cached, files, origin, <<"cache">>)
    ELSE read_from_origin(source, files, origin, << >>)

----------------------------------------------------------------------------
(* One source read by _read_pronunciation_data *)

\* where a url may lead: a file on disk, named .zip or not, or a remote
\* address that answers, fails to connect or answers with an error status
OriginChoices ==
    {[local |-> TRUE, zip_name |-> z, fetch |-> "ok", content |-> c] :
        z \in BOOLEAN, c \in Contents}
    \cup {[local |-> FALSE, zip_name |-> FALSE, fetch |-> "ok", content |-> c] :
            c \in Contents}
    \cup {[local |-> FALSE, zip_name |-> FALSE, fetch |-> f, content |-> "json"] :
            f \in {"OSError", "status_404"}}

\* a cache file as pickle_self writes it
CacheOf(url) == [kind |-> "data", data |-> [ParsedData(TRUE, url) EXCEPT !.original_url = url]]
\* a cache file a write that did not finish left behind
EmptyFile == [kind |-> "empty", data |-> NoData]
CorruptFile == [kind |-> "corrupt", data |-> NoData]
OtherFile == [kind |-> "other", data |-> NoData]

CacheChoices == {CacheOf(u) : u \in Urls} \cup {EmptyFile, CorruptFile}

NoTable == [rows |-> << >>, last_results |-> << >>, search_line |-> << >>]

InitAudioRead ==
    /\ cfg = DefaultConfig
    /\ acc_dict = << >>
    /\ lexicon = [known |-> FALSE, reading |-> << >>, headword |-> << >>]
    /\ cache = << >>
    /\ pc = "idle"
    /\ note = NoNote
    /\ call = NoCall
    /\ result = NoResult
    /\ \E files \in {<< >>} \cup {(<<"audio_source_", "n1", ".pickle">> :> c) : c \in CacheChoices} :
           user_files = files
    /\ origins \in [Urls -> OriginChoices]
    /\ audio_sources = << >>
    /\ table = NoTable

\* init_dictionaries, line 266: self._read_pronunciation_data(source)
ReadPronunciationData(source) ==
    /\ pc = "idle"
    /\ \E r \in {_read_pronunciation_data(source, user_files, origins[source.url])} :
           /\ result' = [raised |-> r.raised, source |-> r.source, log |-> r.log,
                         before |-> user_files]
           /\ user_files' = r.files
    /\ call' = [op |-> "_read_pronunciation_data", source |-> source]
    /\ pc' = "done"
    /\ UNCHANGED <<cfg, acc_dict, lexicon, cache, note, origins, audio_sources, table>>

NextAudioRead ==
    /\ pc = "idle"
    /\ \E url \in Urls : ReadPronunciationData(AudioSource(TRUE, "n1", url))

SpecAudioRead == InitAudioRead /\ [][NextAudioRead]_vars

----------------------------------------------------------------------------
(* Properties of the audio cache *)

SourceRead == pc = "done" /\ call.op = "_read_pronunciation_data"
OriginRead == \E i \in DOMAIN result.log : result.log[i] = "origin"
CachePath == cache_path(call.source)
CacheAbsent == CachePath \notin DOMAIN result.before
CacheEmpty == CachePath \in DOMAIN result.before /\ result.before[CachePath].kind = "empty"
RecordedUrlDiffers ==
    /\ CachePath \in DOMAIN result.before
    /\ result.before[CachePath].kind = "data"
    /\ result.before[CachePath].data.original_url # call.source.url

\* the source is ready and its cache file records the url of the source
ReadyAndCached ==
    /\ is_ready(result.source)
    /\ CachePath \in DOMAIN user_files
    /\ user_files[CachePath].kind = "data"
    /\ user_files[CachePath].data.original_url = call.source.url

\* C21 as stated: the origin is read exactly when the cache file is absent or
\* records another url, and a return without an exception leaves the source
\* ready with a cache file that records its url.
C21_Original ==
    SourceRead =>
        /\ OriginRead <=> (CacheAbsent \/ RecordedUrlDiffers)
        /\ result.raised = "" => ReadyAndCached

\* C21: the origin (local file or download) of a source is read exactly when
\* its cache file is absent or empty, or the cache records an original_url
\* other than the url of the source; after _read_pronunciation_data returns
\* without raising, the source is ready and its cache file holds data whose
\* original_url is the url of the source.
C21_CacheValidity ==
    SourceRead =>
        /\ OriginRead <=> (CacheAbsent \/ CacheEmpty \/ RecordedUrlDiffers)
        /\ result.raised = "" => ReadyAndCached

\* a cache written for another url is replaced by what the origin holds
C21_Witness ==
    /\ SourceRead /\ RecordedUrlDiffers /\ OriginRead
    /\ result.raised = "" /\ ReadyAndCached
    /\ result.source.pronunciation_data.origin = call.source.url

----------------------------------------------------------------------------
(* AudioSourceManager: init_dictionaries, set_sources, remove_old_cache_files *)

MaxSources == 2      \* most audio sources in the configuration

\* line 262: AudioSource(**source), the object made for entry idx of the list
SourceObject(conf, idx) == [enabled |-> conf.enabled, name |-> conf.name, url |-> conf.url, pronunciation_data |-> NoData, idx |-> idx]

NoInitResult == [raised |-> "", sources |-> << >>, errors |-> << >>, attempted |-> << >>]

\* line 267: except AudioManagerException
is_caught(exception) == exception = "AudioManagerException"

\* lines 262-273: the loop from entry idx on; acc holds sources, errors, the
\* entries attempted so far and the files of user_files_dir()
RECURSIVE init_loop(_, _, _)
init_loop(confs, idx, acc) ==
    IF idx > Len(confs) THEN acc
    ELSE IF ~confs[idx].enabled THEN init_loop(confs, idx + 1, acc)
    ELSE Bind(_read_pronunciation_data(SourceObject(confs[idx], idx), acc.files, origins[confs[idx].url]),
              LAMBDA r :
                  IF r.raised = ""
                  THEN init_loop(confs, idx + 1,
                                 [acc EXCEPT !.sources = Append(@, r.source),
                                             !.attempted = Append(@, idx),
                                             !.files = r.files])
                  ELSE IF is_caught(r.raised)
                  THEN init_loop(confs, idx + 1,
                                 [acc EXCEPT !.errors = Append(@, [file |-> r.source, exception |-> r.raised]),
                                             !.attempted = Append(@, idx),
                                             !.files = r.files])
                  ELSE [acc EXCEPT !.raised = r.raised,
                                   !.attempted = Append(@, idx),
                                   !.files = r.files])

\* lines 260-274; an exception that is not caught leaves no InitResult
init_dictionaries(confs, files) ==
    Bind(init_loop(confs, 1, [raised |-> "", sources |-> << >>, errors |-> << >>, attempted |-> << >>, files |-> files]),
         LAMBDA r : IF r.raised = "" THEN r
                    ELSE [r EXCEPT !.sources = << >>, !.errors = << >>])

is_audio_cache_file_mut_prefix_only(file) == file[1] = "audio_source_"

\* lines 49-50
is_audio_cache_file(file) == file[1] = "audio_source_" /\ file[Len(file)] = ".pickle"

\* line 278: file.path in (source.cache_path for source in self._audio_sources)
is_used(file, sources) == \E i \in DOMAIN sources : file = cache_path(sources[i])

\* lines 276-280: the files left after remove_old_cache_files
remove_old_cache_files(files, sources) ==
    [f \in {g \in DOMAIN files : ~(is_audio_cache_file(g) /\ ~is_used(g, sources))} |-> files[f]]

\* the entries the configuration may list
SourceConfigs ==
    {[enabled |-> TRUE, name |-> "n1", url |-> "u1"],
     [enabled |-> TRUE, name |-> "n2", url |-> "u2"],
     [enabled |-> FALSE, name |-> "n2", url |-> "u2"]}

\* a good remote source, remote text that is no JSON, an address that cannot
\* be reached, a local zip without a .json member
ManagerOrigins ==
    {[local |-> FALSE, zip_name |-> FALSE, fetch |-> "ok", content |-> "json"],
     [local |-> FALSE, zip_name |-> FALSE, fetch |-> "ok", content |-> "text"],
     [local |-> FALSE, zip_name |-> FALSE, fetch |-> "OSError", content |-> "json"],
     [local |-> TRUE, zip_name |-> TRUE, fetch |-> "ok", content |-> "zip_no_json"]}

\* files that are no cache files, whatever their names look like
OtherFiles ==
    (<<"audio_source_", "n1", ".json">> :> OtherFile) @@ (<<"notes", ".pickle">> :> OtherFile)

\* user_files_dir() when the add-on starts: the other files, maybe the cache
\* of n1 from an earlier session, maybe the cache of a source since removed
FileChoices ==
    {OtherFiles @@ n1 @@ n3 :
        n1 \in {<< >>} \cup {(<<"audio_source_", "n1", ".pickle">> :> c) : c \in {CacheOf("u1"), CacheOf("u2"), CorruptFile}},
        n3 \in {<< >>, (<<"audio_source_", "n3", ".pickle">> :> CacheOf("u1"))}}

InitAudioManager ==
    /\ cfg \in {[DefaultConfig EXCEPT !.audio_sources = confs] : confs \in SeqsUpTo(SourceConfigs, MaxSources)}
    /\ acc_dict = << >>
    /\ lexicon = [known |-> FALSE, reading |-> << >>, headword |-> << >>]
    /\ cache = << >>
    /\ pc = "idle"
    /\ note = NoNote
    /\ call = NoCall
    /\ result = [init |-> NoInitResult, initialized |-> {}, before |-> << >>]
    /\ user_files \in FileChoices
    /\ origins \in [Urls -> ManagerOrigins]
    /\ audio_sources = << >>
    /\ table = NoTable

\* lines 260-274; result.initialized collects the cache files of the sources
\* initialized since the add-on started
InitDictionaries ==
    /\ \E r \in {init_dictionaries(cfg.audio_sources, user_files)} :
           /\ result' = [init |-> [raised |-> r.raised, sources |-> r.sources,
                                   errors |-> r.errors, attempted |-> r.attempted],
                         initialized |-> result.initialized
                             \cup {cache_path(r.sources[i]) : i \in DOMAIN r.sources},
                         before |-> user_files]
           /\ user_files' = r.files
    /\ call' = [op |-> "init_dictionaries"]
    /\ pc' = "called"
    /\ UNCHANGED <<cfg, acc_dict, lexicon, cache, note, origins, audio_sources, table>>

\* lines 257-258
SetSources(sources) ==
    /\ audio_sources' = sources
    /\ result' = [result EXCEPT !.before = user_files]
    /\ call' = [op |-> "set_sources"]
    /\ pc' = "called"
    /\ UNCHANGED <<cfg, acc_dict, lexicon, cache, note, origins, user_files, table>>

\* lines 276-280
RemoveOldCacheFiles ==
    /\ user_files' = remove_old_cache_files(user_files, audio_sources)
    /\ result' = [result EXCEPT !.before = user_files]
    /\ call' = [op |-> "remove_old_cache_files"]
    /\ pc' = "called"
    /\ UNCHANGED <<cfg, acc_dict, lexicon, cache, note, origins, audio_sources, table>>

\* main, line 312: set_sources is given the sources of an InitResult
NextAudioManager ==
    \/ InitDictionaries
    \/ SetSources(result.init.sources)
    \/ RemoveOldCacheFiles

SpecAudioManager == InitAudioManager /\ [][NextAudioManager]_vars

----------------------------------------------------------------------------
(* Properties of the audio source manager *)

InitCalled == pc = "called" /\ call.op = "init_dictionaries"
Configured == DOMAIN cfg.audio_sources
InSources(idx) == \E j \in DOMAIN result.init.sources : result.init.sources[j].idx = idx
InErrors(idx) == \E j \in DOMAIN result.init.errors : result.init.errors[j].file.idx = idx
Attempted(idx) == \E j \in DOMAIN result.init.attempted : result.init.attempted[j] = idx

\* C22: init_dictionaries returns an InitResult in which every enabled
\* configured source is either in sources, loaded and ready, or in errors,
\* and never in both; a disabled source is in neither; and every enabled
\* source is attempted, whatever happened to the sources before it.
C22_FailuresIsolated ==
    InitCalled =>
        /\ result.init.raised = ""
        /\ \A idx \in Configured :
               IF cfg.audio_sources[idx].enabled
               THEN /\ Attempted(idx)
                    /\ InSources(idx) # InErrors(idx)
                    /\ \A j \in DOMAIN result.init.sources : is_ready(result.init.sources[j])
               ELSE ~InSources(idx) /\ ~InErrors(idx) /\ ~Attempted(idx)

RemoveCalled == pc = "called" /\ call.op = "remove_old_cache_files"
Deleted == DOMAIN result.before \ DOMAIN user_files
NamedLikeCache(file) == file[1] = "audio_source_" /\ file[Len(file)] = ".pickle"
CachePathsOf(sources) == {<<"audio_source_", sources[i].name, ".pickle">> : i \in DOMAIN sources}
KeptAsTheyWere ==
    /\ DOMAIN user_files \subseteq DOMAIN result.before
    /\ \A f \in DOMAIN user_files : user_files[f] = result.before[f]

\* C23 as stated: remove_old_cache_files deletes no cache file of a source
\* initialized since the add-on started, deletes only audio_source_*.pickle
\* files of no such source and leaves the other files as they were.
C23_Original ==
    RemoveCalled =>
        /\ Deleted \cap result.initialized = {}
        /\ \A f \in Deleted : NamedLikeCache(f)
        /\ KeptAsTheyWere

\* C23: remove_old_cache_files deletes no cache file of a source in the list
\* last given to set_sources; it deletes exactly the audio_source_*.pickle
\* files that are the cache file of no source in that list, and leaves all
\* other files as they were.
C23_KeepsCachesOfSetSources ==
    RemoveCalled =>
        /\ Deleted \cap CachePathsOf(audio_sources) = {}
        /\ \A f \in DOMAIN result.before :
               f \in Deleted <=> (NamedLikeCache(f) /\ f \notin CachePathsOf(audio_sources))
        /\ KeptAsTheyWere

\* the cache of a source that is set is kept and a stale cache is deleted,
\* next to files that are no cache files
C23_Witness ==
    /\ RemoveCalled
    /\ audio_sources # << >>
    /\ CachePathsOf(audio_sources) \subseteq DOMAIN user_files
    /\ <<"audio_source_", "n3", ".pickle">> \in Deleted
    /\ <<"audio_source_", "n1", ".json">> \in DOMAIN user_files

----------------------------------------------------------------------------
(* Lookups between changes of the configuration *)

ConfigExprs == {<<"k">>, <<"a">>, <<"k", "/", "a">>}

InitConfigChange ==
    /\ NoAudio
    /\ cfg \in CacheConfigs
    /\ acc_dict = FullDict
    /\ lexicon \in {[known |-> FALSE, reading |-> << >>, headword |-> << >>],
                    [known |-> TRUE, reading |-> <<"A">>, headword |-> <<"k">>]}
    /\ cache = << >>
    /\ pc = "idle"
    /\ note = NoNote
    /\ call = [op |-> "none", n |-> 0]
    /\ result = NoResult

\* do_task, line 285: get_pronunciations(src_text), with the cache and the
\* configuration as they are when the call is made
ResolveNow(expr) ==
    /\ call.n < MaxCalls
    /\ \E r \in {get_pronunciations(expr, TRUE, TRUE, 0, "top", FALSE,
                                     [cache |-> cache, log |-> << >>])} :
          /\ result' = [ret |-> r.ret, log |-> r.s.log]
          /\ cache' = r.s.cache
    /\ call' = [op |-> "resolve", expr |-> expr, n |-> call.n + 1]
    /\ pc' = "done"
    /\ UNCHANGED <<cfg, acc_dict, lexicon, note>>
    /\ UNCHANGED audio_vars

\* the user changes a setting that get_pronunciations reads (lines 124, 141,
\* 150); nothing in reading.py is called when the configuration changes
ChangeConfig(new_cfg) ==
    /\ new_cfg # cfg
    /\ cfg' = new_cfg
    /\ pc' = "changed"
    /\ UNCHANGED <<acc_dict, lexicon, cache, note, call, result>>
    /\ UNCHANGED audio_vars

NextConfigChange ==
    \/ \E expr \in ConfigExprs : ResolveNow(expr)
    \/ \E blocklist \in BlocklistChoices : ChangeConfig([cfg EXCEPT !.pa_blocklist = blocklist])
    \/ ChangeConfig([cfg EXCEPT !.kana_lookups = ~@])
    \/ ChangeConfig([cfg EXCEPT !.use_mecab = ~@])

SpecConfigChange == InitConfigChange /\ [][NextConfigChange]_vars

----------------------------------------------------------------------------
(* Properties of lookups between changes of the configuration *)

ResolvedNow == pc = "done" /\ call.op = "resolve"

\* C24: whatever lookups and changes of the blocklist, of the kana lookups
\* and of the use of mecab came before, get_pronunciations returns what it
\* computes with an empty cache under the configuration in force at the
\* call, and so no key that is blocklisted at the call.
C24_MemoizedEqualsUnmemoized ==
    ResolvedNow =>
        /\ result.ret = ResolveFresh(call.expr)
        /\ dict_keys(result.ret) \cap cfg.pa_blocklist = {}

----------------------------------------------------------------------------
(* Properties of DoTasks.run *)

TasksOfRun == iter_tasks(call.src_field)
Wrote(i) == result.attempts[i].wrote

\* C25: run attempts every task of the note in order, also after an earlier
\* task wrote or when the incoming flag is already true: each task writes
\* exactly when its fields exist, its destination may be filled and its
\* source holds text; run returns true exactly when the incoming flag was
\* true or a task wrote, and never turns an incoming true into false.
C25_NoShortCircuit ==
    Ran =>
        /\ Len(result.attempts) = Len(TasksOfRun)
        /\ \A i \in DOMAIN result.attempts :
               /\ result.attempts[i].task = TasksOfRun[i]
               /\ Wrote(i) <=> /\ FieldsExist(result.attempts[i])
                               /\ MayFill(result.attempts[i])
                               /\ HasSourceText(result.attempts[i])
               /\ ~Wrote(i) => result.attempts[i].after = result.attempts[i].before
        /\ result.changed <=> (call.changed \/ \E i \in DOMAIN result.attempts : Wrote(i))
        /\ call.changed => result.changed

\* with the incoming flag true, a task writes after an earlier task wrote
C25_Witness ==
    /\ Ran /\ call.changed /\ result.changed
    /\ Len(result.attempts) = 2
    /\ Wrote(1) /\ Wrote(2)
    /\ result.attempts[2].after # result.attempts[2].before

----------------------------------------------------------------------------
(* Audio search dialog: SearchResultsTable, AudioSearchDialog *)

MaxFound == 2        \* most files one search finds
MaxSearches == 3     \* searches made in one dialog

\* the k-th file found by search number n for the word; a file carries what
\* populate_with_results reads from it (lines 128-132)
FoundFile(word, n, k) ==
    [source_name |-> "s", word |-> word, reading |-> "r", pitch_number |-> "0",
     desired_filename |-> <<word, n, k>>, url |-> <<"u", n, k>>]

\* AudioManager.search_audio: a new list of the files found for the text
search_audio(src_text, n, found) == [k \in 1..found |-> FoundFile(src_text, n, k)]

\* lines 123-138: the row made for a file, its checkbox not checked, its
\* buttons bound to the file
NewRow(file) ==
    [add_to_note |-> FALSE, play |-> file, open |-> file,
     cells |-> <<file.source_name, file.word, file.reading, file.pitch_number,
                 file.desired_filename>>]

\* QTableWidget.insertRow(row_n), row_n counted from 0
insertRow(rows, row_n, row) ==
    IF row_n > Len(rows) THEN rows
    ELSE SubSeq(rows, 1, row_n) \o <<row>> \o SubSeq(rows, row_n + 1, Len(rows))

clear_mut_keeps_rows(t) == [t EXCEPT !.last_results = << >>]

\* lines 108-110
clear(t) == [t EXCEPT !.rows = << >>, !.last_results = << >>]

\* lines 122-138: the rows after the files from position row_n + 1 on are added
RECURSIVE populate_rows(_, _, _)
populate_rows(rows, results, row_n) ==
    IF row_n >= Len(results) THEN rows
    ELSE populate_rows(insertRow(rows, row_n, NewRow(results[row_n + 1])), results, row_n + 1)

\* lines 120-138
populate_with_results(t, results) ==
    [t EXCEPT !.last_results = results, !.rows = populate_rows(t.rows, results, 0)]

\* lines 112-118
files_to_add(t) ==
    LET paired == IF Len(t.rows) < Len(t.last_results) THEN Len(t.rows) ELSE Len(t.last_results)
    IN SelectSeq(SubSeq(t.last_results, 1, paired),
                 LAMBDA file : \E row_n \in 1..paired :
                                   t.last_results[row_n] = file /\ t.rows[row_n].add_to_note)

\* line 204: search_text or self._search_bar.current_text(); None is << >>
effective_text(t, search_text) == IF search_text # << >> THEN search_text ELSE t.search_line

\* lines 202-213
search(t, search_text, n, found) ==
    LET cleared == [clear(t) EXCEPT !.search_line = effective_text(t, search_text)]
    IN IF effective_text(t, search_text) = << >> THEN cleared
       ELSE populate_with_results(cleared, search_audio(effective_text(t, search_text), n, found))

SearchTexts == {<< >>, <<"k">>, <<"a">>}

InitSearch ==
    /\ cfg = DefaultConfig
    /\ acc_dict = << >>
    /\ lexicon = [known |-> FALSE, reading |-> << >>, headword |-> << >>]
    /\ cache = << >>
    /\ pc = "idle"
    /\ note = NoNote
    /\ call = [op |-> "none", n |-> 0, text |-> << >>, found |-> << >>, previous |-> << >>]
    /\ result = [to_add |-> << >>]
    /\ user_files = << >>
    /\ origins = << >>
    /\ audio_sources = << >>
    /\ table = NoTable

\* dialog.search(search_text), or the search button with search_text None;
\* call keeps the text searched for, the list search_audio returned and the
\* list the search before returned
Search(search_text, found) ==
    /\ call.n < MaxSearches
    /\ table' = search(table, search_text, call.n + 1, found)
    /\ call' = [op |-> "search", n |-> call.n + 1,
                text |-> effective_text(table, search_text),
                found |-> IF effective_text(table, search_text) = << >> THEN << >>
                          ELSE search_audio(effective_text(table, search_text), call.n + 1, found),
                previous |-> call.found]
    /\ pc' = "searched"
    /\ UNCHANGED <<cfg, acc_dict, lexicon, cache, note, result, user_files, origins, audio_sources>>

\* the user types into the search line
TypeText(text) ==
    /\ text # table.search_line
    /\ table' = [table EXCEPT !.search_line = text]
    /\ UNCHANGED <<cfg, acc_dict, lexicon, cache, pc, note, call, result, user_files, origins, audio_sources>>

\* the user clicks the checkbox of a row
ToggleCheckbox(row_n) ==
    /\ table' = [table EXCEPT !.rows[row_n].add_to_note = ~@]
    /\ UNCHANGED <<cfg, acc_dict, lexicon, cache, pc, note, call, result, user_files, origins, audio_sources>>

\* lines 199-200: dialog.files_to_add()
FilesToAdd ==
    /\ result' = [to_add |-> files_to_add(table)]
    /\ pc' = "asked"
    /\ UNCHANGED <<cfg, acc_dict, lexicon, cache, note, call, user_files, origins, audio_sources, table>>

NextSearch ==
    \/ \E search_text \in SearchTexts, found \in 0..MaxFound : Search(search_text, found)
    \/ \E text \in SearchTexts : TypeText(text)
    \/ \E row_n \in DOMAIN table.rows : ToggleCheckbox(row_n)
    \/ FilesToAdd

SpecSearch == InitSearch /\ [][NextSearch]_vars

----------------------------------------------------------------------------
(* Properties of the audio search dialog *)

Searched == call.op = "search"

\* the results of the rows that are checked, in order
CheckedOf(results) ==
    SelectSeq(results, LAMBDA file : \E i \in DOMAIN table.rows :
                                         i <= Len(results) /\ results[i] = file
                                         /\ table.rows[i].add_to_note)

============================================================================
